---- MODULE Spec2Model ----
(***************************************************************************)
(* Coordination core of the multi-agent backend.                           *)
(*                                                                         *)
(*   - SharedInstructionQueue (src/backend/agent/shared_queue.py): the     *)
(*     global work list from which any agent claims the next command.      *)
(*   - InterAgentCommunication (src/backend/agent/collaboration.py): the   *)
(*     task-claim part of the collaboration bus.                           *)
(*                                                                         *)
(* Every queue method runs its whole body under one asyncio.Lock and has   *)
(* no await inside the critical section, so a method is one atomic step.   *)
(* Each method is written as a pure operator on the queue value            *)
(* [instructions, instruction_counter, executed_instructions] returning    *)
(* the new queue and the method's return value; the actions below apply    *)
(* the operators to the state.                                             *)
(*                                                                         *)
(* Strings that the code inspects (commands: truthiness and strip()) are    *)
(* tuples of one-character strings.  Timestamps are the marker "ts".       *)
(* Python's None is the string "None".                                     *)
(***************************************************************************)
EXTENDS Integers, Sequences, FiniteSets, TLC

VARIABLES
    instructions,            \* self.instructions: list of instruction dicts
    instruction_counter,     \* self.instruction_counter
    executed_instructions,   \* self.executed_instructions
    last,                    \* history: the last call made and what it returned
    run,                     \* history: the current run of consecutive claim_next calls
    held,                    \* history: per agent, the copies it got from claim_next
                             \*          and has not yet reported back
    cleared,                 \* history: ids that were executing when clear_queue ran
    completions,             \* history: the complete_instruction calls that succeeded
    steps                    \* calls still allowed (bounds the exploration)

qvars == <<instructions, instruction_counter, executed_instructions,
           last, run, held, cleared, completions, steps>>

VARIABLES
    message_queue,           \* self._message_queue: agent id -> list of messages
    subscriptions,           \* self._subscriptions: agent id -> message types
    message_counter,         \* self._message_counter
    completed_tasks,         \* self._completed_tasks
    in_progress_tasks,       \* self._in_progress_tasks: task identifier -> agent id
    shared_discoveries,      \* self._shared_discoveries: the entries in insertion order
    bus_call,                \* per agent: the bus call it is in, and where
    tlast,                   \* history: the last task call that ran its locked part
    finished_tasks,          \* history: identifiers complete_task was called for
    completion_order,        \* history: the completed set in order of insertion
    dlast,                   \* history: the last share_discovery call and its outcome
    first_share,             \* history: per (type, key), the first share_discovery call
    grants,                  \* history: per task identifier, the claim_task calls
                             \*          that returned true
    sent,                    \* history: the last message given to send_message by a
                             \*          messaging call, and what send_message returned
    bsteps                   \* bus steps still allowed (bounds the exploration)

busvars == <<message_queue, subscriptions, message_counter, completed_tasks,
             in_progress_tasks, shared_discoveries, bus_call, tlast, finished_tasks,
             completion_order, dlast, first_share, grants, sent, bsteps>>

VARIABLES
    agent_states,            \* self.agent_states: agent id -> ThrottleState
    throttler_last_cleanup,  \* self._last_cleanup of the throttler
    cached_resources,        \* self._cached_resources
    cache_time,              \* self._cache_time
    throttle_call,           \* per agent: the check_and_throttle call it is in
    tnow,                    \* the clock the throttler reads, in seconds
    thlast,                  \* history: the last check_and_throttle call that returned
    levels,                  \* history: the levels computed for two resource samples
    thsteps                  \* throttler steps still allowed (bounds the exploration)

thrvars == <<agent_states, throttler_last_cleanup, cached_resources, cache_time,
             throttle_call, tnow, thlast, levels, thsteps>>

VARIABLES
    model_state,             \* self._model_state: model name -> state dict
    limiter_last_cleanup,    \* self._last_cleanup of the rate limiter
    rnow,                    \* the clock the rate limiter reads, in microseconds
    rlast,                   \* history: the last rate limiter call and its outcome
    rsteps                   \* rate limiter steps still allowed (bounds the exploration)

ratevars == <<model_state, limiter_last_cleanup, rnow, rlast, rsteps>>

\* the workers' loops: agent -> the worker's fields and its place in
\* _run_autonomous_loop; wseen, wlast: what is remembered of their steps;
\* wsteps, wevents: steps and outside events left in the behaviour
VARIABLES worker, wseen, wlast, wsteps, wevents

workervars == <<worker, wseen, wlast, wsteps, wevents>>

\* the bus's asyncio.Lock: bus_lock is the coroutine holding it (None: free),
\* bus_task each coroutine's place in its bus call, message_handlers the agents
\* set_message_handler was called for, lsteps the bus calls left in the behaviour
VARIABLES bus_lock, bus_task, message_handlers, lsteps

lockvars == <<bus_lock, bus_task, message_handlers, lsteps>>

\* the observers of the queue: listeners is self._listeners, the asyncio.Queues
\* add_listener made, each named by the number of its creation; delivered the
\* snapshots put into each of them, oldest first; returned the snapshot the last
\* get_queue_state call gave its caller; detached the instruction dicts that
\* have left self.instructions while a snapshot still refers to them
VARIABLES listeners, delivered, returned, detached

snapvars == <<listeners, delivered, returned, detached>>

\* the callers of the rate limiter: caller is each one's place in its cycle of
\* acquire, sleep, request and record; streak what is remembered of each one's
\* rate-limited requests in a row; users the callers that have called the limiter
VARIABLES caller, streak, users

callvars == <<caller, streak, users>>

procvars == <<workervars, lockvars, snapvars, callvars>>

vars == <<qvars, busvars, thrvars, ratevars, procvars>>

----------------------------------------------------------------------------
(* Program constants *)

max_executed_history == 25
max_instructions == 50
max_messages_per_agent == 20
max_completed_tasks == 50
max_discoveries == 100

(* Bounds of the exploration *)

MaxSteps == 5        \* calls per behaviour from a new queue
MaxFullSteps == 3    \* calls per behaviour from a queue filled to its limits
IdWindow == 2        \* id arguments range over the first IdWindow active items ...
HistWindow == 1      \* ... the last HistWindow completed items, and one unknown id
MaxBusSteps == 4     \* steps of bus calls per behaviour
MaxMsgSteps == 3     \* steps of messaging and discovery calls per behaviour
MaxAckSteps == 4     \* steps of finding, acknowledge and clear calls per behaviour
MaxThrottleSteps == 5  \* steps of throttler calls and clock ticks per behaviour
MaxRateSteps == 4    \* steps of rate limiter calls and clock ticks per behaviour
MaxBudgetClock == 61  \* the last second the clock of the request cycles reaches
MaxRateClock == 700  \* the last second the rate limiter's clock reaches
MaxWorkerSteps == 7  \* steps of the workers per behaviour
MaxWorkerEvents == 1 \* outside calls (stop, pause, resume, queue add) per behaviour
MaxWorkerClock == 70 \* the last second the workers' clock reaches
MaxLockCalls == 3    \* bus calls per behaviour of the lock's model
MaxListenerSteps == 5 \* calls per behaviour of the observed queue
MaxListeners == 2    \* listeners added per behaviour

None == "None"
Agents == {"agent-1", "agent-2"}
Whitespace == {" ", "\t"}

\* command strings given to add_instruction / edit_instruction
CmdInputs == { <<" ">>, <<"a">>, <<" ", "b", "\t">> }

\* command lists given to add_instructions
BatchInputs == { <<>>,
                 << <<"a">> >>,
                 << <<" ", "b", "\t">>, <<" ">>, <<"c">> >> }

ErrorInputs == {"boom"}
ResultInputs == {"completed"}

----------------------------------------------------------------------------
(* str.strip() and the truthiness test `cmd and cmd.strip()` *)

RECURSIVE lstrip(_)
lstrip(s) ==
    IF s = <<>> THEN <<>>
    ELSE IF Head(s) \in Whitespace THEN lstrip(Tail(s))
    ELSE s

RECURSIVE rstrip(_)
rstrip(s) ==
    IF s = <<>> THEN <<>>
    ELSE IF s[Len(s)] \in Whitespace THEN rstrip(SubSeq(s, 1, Len(s) - 1))
    ELSE s

strip(s) == rstrip(lstrip(s))

Truthy(s) == s # <<>>

\* list.remove(x): drops the first element equal to x
RECURSIVE ListRemove(_, _)
ListRemove(s, x) ==
    IF s = <<>> THEN <<>>
    ELSE IF Head(s) = x THEN Tail(s)
    ELSE <<Head(s)>> \o ListRemove(Tail(s), x)

IsPending(i) == i.status = "pending"
IsExecuting(i) == i.status = "executing"

Pending(ins) == SelectSeq(ins, IsPending)
Executing(ins) == SelectSeq(ins, IsExecuting)

\* the dict appended by add_instructions / add_instruction
NewInstruction(id, cmd) ==
    [id |-> id, command |-> strip(cmd), status |-> "pending", added_at |-> "ts",
     claimed_by |-> None, started_at |-> None, completed_at |-> None,
     result |-> None, error |-> None]

NoItem == NewInstruction(0, <<>>)

EmptyQueue ==
    [instructions |-> <<>>, instruction_counter |-> 0, executed_instructions |-> <<>>]

----------------------------------------------------------------------------
(* SharedInstructionQueue *)

\* mutant: the trim keeps the oldest entries and drops the newest
trim_executed_history_keeps_oldest(ex) ==
    IF Len(ex) > max_executed_history
    THEN SubSeq(ex, 1, max_executed_history)
    ELSE ex

trim_executed_history(ex) ==
    IF Len(ex) > max_executed_history
    THEN LET excess == Len(ex) - max_executed_history
         IN  SubSeq(ex, excess + 1, Len(ex))
    ELSE ex

RECURSIVE RemoveEach(_, _)
RemoveEach(ins, to_remove) ==
    IF to_remove = <<>> THEN ins
    ELSE RemoveEach(ListRemove(ins, Head(to_remove)), Tail(to_remove))

\* mutant: the trim cuts the head of the whole list, whatever the status
trim_instructions_cuts_head(ins) ==
    LET pending == Pending(ins)
    IN  IF Len(pending) > max_instructions
        THEN LET excess == Len(pending) - max_instructions
             IN  SubSeq(ins, excess + 1, Len(ins))
        ELSE ins

trim_instructions(ins) ==
    LET pending == Pending(ins)
    IN  IF Len(pending) > max_instructions
        THEN LET excess == Len(pending) - max_instructions
             IN  RemoveEach(ins, SubSeq(pending, 1, excess))
        ELSE ins

\* the loop of add_instructions (lines 71-83): [q, ret] with ret = added
RECURSIVE AppendCommands(_, _, _)
AppendCommands(q, commands, added) ==
    IF commands = <<>> THEN [q |-> q, ret |-> added]
    ELSE LET cmd == Head(commands)
         IN  IF Truthy(cmd) /\ Truthy(strip(cmd))
             THEN AppendCommands(
                    [q EXCEPT !.instruction_counter = @ + 1,
                              !.instructions =
                                 Append(@, NewInstruction(q.instruction_counter + 1, cmd))],
                    Tail(commands), added + 1)
             ELSE AppendCommands(q, Tail(commands), added)

add_instructions(q, commands) ==
    LET r == AppendCommands(q, commands, 0)
    IN  [q |-> [r.q EXCEPT !.instructions = trim_instructions(@)], ret |-> r.ret]

\* mutant: the new item takes the next id but the counter is not advanced
add_instruction_keeps_counter(q, command) ==
    IF Truthy(command) /\ Truthy(strip(command))
    THEN [q |-> [q EXCEPT !.instructions =
                             Append(@, NewInstruction(q.instruction_counter + 1, command))],
          ret |-> q.instruction_counter + 1]
    ELSE [q |-> q, ret |-> -1]

add_instruction(q, command) ==
    IF Truthy(command) /\ Truthy(strip(command))
    THEN [q |-> [q EXCEPT !.instruction_counter = @ + 1,
                          !.instructions =
                             Append(@, NewInstruction(q.instruction_counter + 1, command))],
          ret |-> q.instruction_counter + 1]
    ELSE [q |-> q, ret |-> -1]

\* the loops `for instruction in self.instructions: if <test>: ...; break`:
\* the first of the indexes that pass the test, 0 if there is none
FirstIndex(hits) ==
    IF hits = {} THEN 0 ELSE CHOOSE i \in hits : \A j \in hits : i <= j

\* mutant: the claim records the claimant but leaves the item pending
claim_next_leaves_pending(q, agent_id) ==
    LET k == FirstIndex({i \in DOMAIN q.instructions : IsPending(q.instructions[i])})
    IN  IF k = 0 THEN [q |-> q, ret |-> NoItem, found |-> FALSE]
        ELSE LET claimed == [q.instructions[k] EXCEPT !.claimed_by = agent_id,
                                                       !.started_at = "ts"]
             IN  [q |-> [q EXCEPT !.instructions[k] = claimed],
                  ret |-> claimed, found |-> TRUE]

\* mutant: the claim takes the newest pending item
claim_next_newest(q, agent_id) ==
    LET hits == {i \in DOMAIN q.instructions : IsPending(q.instructions[i])}
        k == IF hits = {} THEN 0 ELSE CHOOSE i \in hits : \A j \in hits : i >= j
    IN  IF k = 0 THEN [q |-> q, ret |-> NoItem, found |-> FALSE]
        ELSE LET claimed == [q.instructions[k] EXCEPT !.status = "executing",
                                                       !.claimed_by = agent_id,
                                                       !.started_at = "ts"]
             IN  [q |-> [q EXCEPT !.instructions[k] = claimed],
                  ret |-> claimed, found |-> TRUE]

claim_next(q, agent_id) ==
    LET k == FirstIndex({i \in DOMAIN q.instructions : IsPending(q.instructions[i])})
    IN  IF k = 0 THEN [q |-> q, ret |-> NoItem, found |-> FALSE]
        ELSE LET claimed == [q.instructions[k] EXCEPT !.status = "executing",
                                                       !.claimed_by = agent_id,
                                                       !.started_at = "ts"]
             IN  [q |-> [q EXCEPT !.instructions[k] = claimed],
                  ret |-> claimed, found |-> TRUE]

\* mutant: the completion matches the id alone, not the claimant
complete_instruction_any_agent(q, instruction_id, agent_id, result) ==
    LET Match(i) == i.id = instruction_id
        k == FirstIndex({i \in DOMAIN q.instructions : Match(q.instructions[i])})
    IN  IF k = 0 THEN [q |-> q, ret |-> FALSE]
        ELSE LET done == [q.instructions[k] EXCEPT !.status = "completed",
                                                    !.completed_at = "ts",
                                                    !.result = result]
                 marked == [q.instructions EXCEPT ![k] = done]
             IN  [q |-> [q EXCEPT
                           !.executed_instructions =
                               trim_executed_history(Append(@, done)),
                           !.instructions = ListRemove(marked, done)],
                  ret |-> TRUE]

\* (result[:500] if result else "" leaves the results passed here as they are)
complete_instruction(q, instruction_id, agent_id, result) ==
    LET Match(i) == i.id = instruction_id /\ i.claimed_by = agent_id
        k == FirstIndex({i \in DOMAIN q.instructions : Match(q.instructions[i])})
    IN  IF k = 0 THEN [q |-> q, ret |-> FALSE]
        ELSE LET done == [q.instructions[k] EXCEPT !.status = "completed",
                                                    !.completed_at = "ts",
                                                    !.result = result]
                 marked == [q.instructions EXCEPT ![k] = done]
             IN  [q |-> [q EXCEPT
                           !.executed_instructions =
                               trim_executed_history(Append(@, done)),
                           !.instructions = ListRemove(marked, done)],
                  ret |-> TRUE]

\* mutant: the failure re-queues the item but keeps its claimant
fail_instruction_keeps_claimant(q, instruction_id, agent_id, error) ==
    LET Match(i) == i.id = instruction_id /\ i.claimed_by = agent_id
        k == FirstIndex({i \in DOMAIN q.instructions : Match(q.instructions[i])})
    IN  IF k = 0 THEN [q |-> q, ret |-> FALSE]
        ELSE [q |-> [q EXCEPT !.instructions[k] =
                         [@ EXCEPT !.status = "pending", !.started_at = None,
                                   !.error = error]],
              ret |-> TRUE]

fail_instruction(q, instruction_id, agent_id, error) ==
    LET Match(i) == i.id = instruction_id /\ i.claimed_by = agent_id
        k == FirstIndex({i \in DOMAIN q.instructions : Match(q.instructions[i])})
    IN  IF k = 0 THEN [q |-> q, ret |-> FALSE]
        ELSE [q |-> [q EXCEPT !.instructions[k] =
                         [@ EXCEPT !.status = "pending", !.claimed_by = None,
                                   !.started_at = None, !.error = error]],
              ret |-> TRUE]

remove_instruction(q, instruction_id) ==
    LET Match(i) == i.id = instruction_id
        k == FirstIndex({i \in DOMAIN q.instructions : Match(q.instructions[i])})
    IN  IF k = 0 THEN [q |-> q, ret |-> FALSE]
        ELSE [q |-> [q EXCEPT !.instructions =
                         SubSeq(@, 1, k - 1) \o SubSeq(@, k + 1, Len(@))],
              ret |-> TRUE]

\* mutant: the edit matches the id alone, not the status
edit_instruction_any_status(q, instruction_id, new_command) ==
    LET Match(i) == i.id = instruction_id
        k == FirstIndex({i \in DOMAIN q.instructions : Match(q.instructions[i])})
    IN  IF k = 0 THEN [q |-> q, ret |-> FALSE]
        ELSE [q |-> [q EXCEPT !.instructions[k].command = strip(new_command)],
              ret |-> TRUE]

edit_instruction(q, instruction_id, new_command) ==
    LET Match(i) == i.id = instruction_id /\ i.status = "pending"
        k == FirstIndex({i \in DOMAIN q.instructions : Match(q.instructions[i])})
    IN  IF k = 0 THEN [q |-> q, ret |-> FALSE]
        ELSE [q |-> [q EXCEPT !.instructions[k].command = strip(new_command)],
              ret |-> TRUE]

\* mutant: the clear empties the whole list
clear_queue_drops_all(q) ==
    [q |-> [q EXCEPT !.instructions = <<>>], ret |-> None]

clear_queue(q) ==
    [q |-> [q EXCEPT !.instructions = Executing(@)], ret |-> None]

\* the slice of the history a snapshot shows (executed_instructions[-8:])
recent_completed_length == 8

\* the dicts of a list as references: a dict of self.instructions is one object
\* from the append that made it on, and no two of them carry one id, so the
\* reference to a dict is written as its id
Refs(ins) == [i \in DOMAIN ins |-> ins[i].id]

\* _get_queue_state_unlocked: pending and executing are new lists of the very
\* dicts of self.instructions (no copy is made), recent_completed is a slice of
\* the history, whose dicts are copies that nothing writes to
get_queue_state_unlocked(q) ==
    LET pending == Pending(q.instructions)
        executing == Executing(q.instructions)
        n == Len(q.executed_instructions)
        first == IF n > recent_completed_length THEN n - recent_completed_length + 1
                 ELSE 1
    IN  [pending |-> Refs(pending), executing |-> Refs(executing),
         total_pending |-> Len(pending), total_executing |-> Len(executing),
         total_completed |-> n,
         recent_completed |-> SubSeq(q.executed_instructions, first, n)]

\* add_listener: a new asyncio.Queue, appended to self._listeners
add_listener(ls, queues) ==
    [listeners |-> Append(ls, Len(queues) + 1), queues |-> Append(queues, <<>>),
     ret |-> Len(queues) + 1]

\* remove_listener
remove_listener(ls, queue) ==
    IF \E i \in DOMAIN ls : ls[i] = queue THEN ListRemove(ls, queue) ELSE ls

\* mutant: only the first listener is notified
notify_listeners_sync_first_only(ls, queues, queue_state) ==
    [l \in DOMAIN queues |->
        IF ls # <<>> /\ ls[1] = l THEN Append(queues[l], queue_state) ELSE queues[l]]

\* _notify_listeners_sync: put_nowait on the queue of every listener (the queues
\* are unbounded, so put_nowait does not raise)
notify_listeners_sync(ls, queues, queue_state) ==
    [l \in DOMAIN queues |->
        IF \E i \in DOMAIN ls : ls[i] = l THEN Append(queues[l], queue_state)
        ELSE queues[l]]

\* the dict a reference leads to: the one in the list, or the one that left it
Object(ins, left, ref) ==
    IF \E i \in DOMAIN ins : ins[i].id = ref
    THEN ins[CHOOSE i \in DOMAIN ins : ins[i].id = ref]
    ELSE left[ref]

\* what a reader of a snapshot finds in it
Read(snapshot, ins, left) ==
    [snapshot EXCEPT !.pending = [i \in DOMAIN @ |-> Object(ins, left, @[i])],
                     !.executing = [i \in DOMAIN @ |-> Object(ins, left, @[i])]]

\* the references held in a set of snapshots
Referenced(snapshots) ==
    UNION {{s.pending[i] : i \in DOMAIN s.pending}
              \cup {s.executing[i] : i \in DOMAIN s.executing} : s \in snapshots}

\* the dicts off the list that the snapshots still refer to, once the queue q
\* has become the queue after: a dict stays as it was when it was taken off the
\* list; complete_instruction writes status, completed_at and result into it
\* first (lines 136-138), which is the state of the copy it appended
left_behind(q, after, left, snapshots) ==
    LET gone == {ref \in Referenced(snapshots) :
                    ~\E i \in DOMAIN after.instructions : after.instructions[i].id = ref}
        done == after.executed_instructions
    IN  [ref \in gone |->
            IF \E i \in DOMAIN q.instructions : q.instructions[i].id = ref
            THEN IF done # q.executed_instructions /\ done[Len(done)].id = ref
                 THEN done[Len(done)]
                 ELSE Object(q.instructions, left, ref)
            ELSE left[ref]]

----------------------------------------------------------------------------
(* InterAgentCommunication: task claims and the broadcast they send *)

MessageTypes ==
    {"discovery", "finding", "request_help", "offer_help", "task_assignment",
     "task_completion", "status_update", "knowledge_share", "alert", "coordination"}

\* AgentMessage; the id is the counter value (the time suffix is left out)
AgentMessage(from_agent, to_agent, message_type, content) ==
    [id |-> 0, from_agent |-> from_agent, to_agent |-> to_agent,
     message_type |-> message_type, content |-> content, ack_received |-> FALSE]

EmptyBus ==
    [message_queue |-> <<>>, subscriptions |-> <<>>, message_counter |-> 0,
     completed_tasks |-> {}, in_progress_tasks |-> <<>>, shared_discoveries |-> <<>>]

\* register_agent, as far as mailboxes and subscriptions go
register_agent(b, agent_id) ==
    [b EXCEPT
       !.message_queue =
           IF agent_id \in DOMAIN @ THEN @
           ELSE [a \in DOMAIN @ \cup {agent_id} |-> IF a = agent_id THEN <<>> ELSE @[a]],
       !.subscriptions =
           IF agent_id \in DOMAIN @ THEN @
           ELSE [a \in DOMAIN @ \cup {agent_id} |->
                    IF a = agent_id THEN MessageTypes ELSE @[a]]]

trim_queue(queue) ==
    IF Len(queue) > max_messages_per_agent
    THEN LET excess == Len(queue) - max_messages_per_agent
         IN  SubSeq(queue, excess + 1, Len(queue))
    ELSE queue

\* the sets left when any n elements of tasks are discarded
RECURSIVE DiscardAny(_, _)
DiscardAny(tasks, n) ==
    IF n = 0 THEN {tasks}
    ELSE UNION {DiscardAny(tasks \ {t}, n - 1) : t \in tasks}

\* the sets _trim_completed_tasks can leave: list(set) has no defined order, so
\* any `excess` elements may be the ones discarded
trim_completed_tasks(tasks) ==
    IF Cardinality(tasks) > max_completed_tasks
    THEN LET excess == Cardinality(tasks) - max_completed_tasks
         IN  DiscardAny(tasks, excess)
    ELSE {tasks}

Subscribed(b, agent_id, message_type) ==
    agent_id \in DOMAIN b.subscriptions /\ message_type \in b.subscriptions[agent_id]

\* mutant: a broadcast also goes to the sender's own mailbox
send_message_echoes_sender(b, message) ==
    LET id == b.message_counter + 1
        msg == [message EXCEPT !.id = id]
        counted == [b EXCEPT !.message_counter = id]
    IN  IF message.to_agent # None
        THEN IF message.to_agent \in DOMAIN b.message_queue
             THEN [b |-> [counted EXCEPT !.message_queue[message.to_agent] =
                                            trim_queue(Append(@, msg))],
                   ret |-> TRUE]
             ELSE [b |-> counted, ret |-> FALSE]
        ELSE [b |-> [counted EXCEPT !.message_queue =
                        [a \in DOMAIN @ |->
                            IF Subscribed(b, a, message.message_type)
                            THEN trim_queue(Append(@[a], msg))
                            ELSE @[a]]],
              ret |-> TRUE]

\* send_message; the push handlers of the workers do nothing for the message
\* types sent here (coordination, task_completion)
send_message(b, message) ==
    LET id == b.message_counter + 1
        msg == [message EXCEPT !.id = id]
        counted == [b EXCEPT !.message_counter = id]
    IN  IF message.to_agent # None
        THEN IF message.to_agent \in DOMAIN b.message_queue
             THEN [b |-> [counted EXCEPT !.message_queue[message.to_agent] =
                                            trim_queue(Append(@, msg))],
                   ret |-> TRUE]
             ELSE [b |-> counted, ret |-> FALSE]
        ELSE [b |-> [counted EXCEPT !.message_queue =
                        [a \in DOMAIN @ |->
                            IF a # message.from_agent
                               /\ Subscribed(b, a, message.message_type)
                            THEN trim_queue(Append(@[a], msg))
                            ELSE @[a]]],
              ret |-> TRUE]

\* Priority
Priority == [LOW |-> 1, NORMAL |-> 5, HIGH |-> 7, CRITICAL |-> 10]

\* the priority the constructors give a message: share_finding by severity,
\* request_help HIGH, broadcast_alert CRITICAL, the others NORMAL
priority(message) ==
    CASE message.message_type = "finding" ->
             IF message.content.severity \in {"Critical", "High"}
             THEN Priority.HIGH ELSE Priority.NORMAL
      [] message.message_type = "request_help" -> Priority.HIGH
      [] message.message_type = "alert" -> Priority.CRITICAL
      [] OTHER -> Priority.NORMAL

default_limit == 50

\* min_priority=None
NoPriority == 0

\* messages.sort(key=(-priority, timestamp)): a mailbox is in order of sending,
\* so the stable sort leaves each priority in mailbox order
SortByPriority(messages) ==
    SelectSeq(messages, LAMBDA m : priority(m) = Priority.CRITICAL)
    \o SelectSeq(messages, LAMBDA m : priority(m) = Priority.HIGH)
    \o SelectSeq(messages, LAMBDA m : priority(m) = Priority.NORMAL)
    \o SelectSeq(messages, LAMBDA m : priority(m) = Priority.LOW)

\* get_messages; message_types is empty when none are given (None and [] are
\* both false), min_priority is NoPriority
get_messages(b, agent_id, message_types, min_priority, limit, unread_only) ==
    IF agent_id \notin DOMAIN b.message_queue THEN <<>>
    ELSE LET all == b.message_queue[agent_id]
             unread == IF unread_only
                       THEN SelectSeq(all, LAMBDA m : ~m.ack_received) ELSE all
             typed == IF message_types # {}
                      THEN SelectSeq(unread, LAMBDA m : m.message_type \in message_types)
                      ELSE unread
             urgent == IF min_priority # NoPriority
                       THEN SelectSeq(typed, LAMBDA m : priority(m) >= min_priority)
                       ELSE typed
             sorted == SortByPriority(urgent)
         IN  SubSeq(sorted, 1, IF Len(sorted) < limit THEN Len(sorted) ELSE limit)

\* acknowledge_message: the first message of the agent's mailbox with this id is
\* marked.  send_message appends one and the same AgentMessage object to every
\* mailbox it delivers to, and an id names one object, so the mark shows in
\* every mailbox that holds the message
acknowledge_message(b, agent_id, message_id) ==
    IF /\ agent_id \in DOMAIN b.message_queue
       /\ \E i \in DOMAIN b.message_queue[agent_id] :
             b.message_queue[agent_id][i].id = message_id
    THEN [b EXCEPT !.message_queue =
             [a \in DOMAIN @ |->
                 [i \in DOMAIN @[a] |->
                     IF @[a][i].id = message_id
                     THEN [@[a][i] EXCEPT !.ack_received = TRUE]
                     ELSE @[a][i]]]]
    ELSE b

\* clear_messages; message_ids is empty when none are given (None and [] are
\* both false)
clear_messages(b, agent_id, message_ids) ==
    IF agent_id \in DOMAIN b.message_queue
    THEN [b EXCEPT !.message_queue[agent_id] =
             IF message_ids # {}
             THEN SelectSeq(@, LAMBDA m : m.id \notin message_ids)
             ELSE <<>>]
    ELSE b

\* claim_task, the part under the lock (lines 327-334)
claim_task_locked(b, agent_id, task_identifier) ==
    IF task_identifier \in b.completed_tasks
    THEN [b |-> b, ret |-> FALSE]
    ELSE IF task_identifier \in DOMAIN b.in_progress_tasks
    THEN [b |-> b, ret |-> FALSE]
    ELSE [b |-> [b EXCEPT !.in_progress_tasks =
                    [t \in DOMAIN @ \cup {task_identifier} |->
                        IF t = task_identifier THEN agent_id ELSE @[t]]],
          ret |-> TRUE]

\* mutant: the completion forgets to drop the claim
complete_task_locked_keeps_claim(b, agent_id, task_identifier) ==
    {[b EXCEPT !.completed_tasks = kept] :
        kept \in trim_completed_tasks(b.completed_tasks \cup {task_identifier})}

\* complete_task, the part under the lock (lines 353-357): the set of states it
\* can leave
complete_task_locked(b, agent_id, task_identifier) ==
    LET released ==
            [t \in DOMAIN b.in_progress_tasks \ {task_identifier} |->
                b.in_progress_tasks[t]]
    IN  {[b EXCEPT !.in_progress_tasks = released, !.completed_tasks = kept] :
            kept \in trim_completed_tasks(b.completed_tasks \cup {task_identifier})}

----------------------------------------------------------------------------
(* InterAgentCommunication: registration, messages and the discovery ledger *)

\* unregister_agent: the mailbox goes, the subscriptions stay
unregister_agent(b, agent_id) ==
    [b EXCEPT !.message_queue = [a \in DOMAIN @ \ {agent_id} |-> @[a]]]

\* f"{discovery_type}:{key}"; strings are sequences of characters
discovery_key(discovery_type, key) == discovery_type \o <<":">> \o key

LedgerKeys(ledger) == {ledger[i].discovery_key : i \in DOMAIN ledger}

\* the entry stored under a key of the ledger
LedgerEntry(ledger, dk) ==
    ledger[CHOOSE i \in DOMAIN ledger : ledger[i].discovery_key = dk]

\* _trim_discoveries: the first keys of the dict, the oldest inserted, go
trim_discoveries(ledger) ==
    IF Len(ledger) > max_discoveries
    THEN SubSeq(ledger, Len(ledger) - max_discoveries + 1, Len(ledger))
    ELSE ledger

Discovery(agent_id, discovery_type, key, data) ==
    [discovery_key |-> discovery_key(discovery_type, key), agent_id |-> agent_id,
     type |-> discovery_type, key |-> key, data |-> data]

\* mutant: a later share of a known key overwrites the entry
share_discovery_locked_overwrites(b, agent_id, discovery_type, key, data) ==
    LET dk == discovery_key(discovery_type, key)
        entry == Discovery(agent_id, discovery_type, key, data)
    IN  IF dk \in LedgerKeys(b.shared_discoveries)
        THEN [b |-> [b EXCEPT !.shared_discoveries =
                        [i \in DOMAIN @ |-> IF @[i].discovery_key = dk THEN entry
                                                                       ELSE @[i]]],
              ret |-> FALSE]
        ELSE [b |-> [b EXCEPT !.shared_discoveries = trim_discoveries(Append(@, entry))],
              ret |-> TRUE]

\* share_discovery, the part under the lock (lines 229-242)
share_discovery_locked(b, agent_id, discovery_type, key, data) ==
    LET dk == discovery_key(discovery_type, key)
    IN  IF dk \in LedgerKeys(b.shared_discoveries)
        THEN [b |-> b, ret |-> FALSE]
        ELSE [b |-> [b EXCEPT !.shared_discoveries =
                        trim_discoveries(Append(@, Discovery(agent_id, discovery_type,
                                                             key, data)))],
              ret |-> TRUE]

\* the message share_discovery broadcasts (lines 245-256)
DiscoveryMessage(agent_id, discovery_type, key, data) ==
    AgentMessage(agent_id, None, "discovery",
                 [discovery_type |-> discovery_type, key |-> key, data |-> data])

----------------------------------------------------------------------------
(* IntelligentThrottler.  Times are whole seconds, delays are milliseconds,
   percentages are whole numbers: the thresholds are whole, so a fractional
   percentage falls in the band of its integer part. *)

\* an Optional[datetime] that is None
NoTime == -1

\* what get_system_resources_async returns when sampling fails, and
\* get_system_resources when nothing is cached
NoResources == [cpu_percent |-> 0, memory_percent |-> 0]

default_base_delay == 1000

ThrottleLevel == [NONE |-> 0, LIGHT |-> 1, MODERATE |-> 2, HEAVY |-> 3, PAUSE |-> 4]

ResourceThresholds ==
    [cpu_light |-> 60, cpu_moderate |-> 75, cpu_heavy |-> 85, cpu_pause |-> 95,
     memory_light |-> 60, memory_moderate |-> 75, memory_heavy |-> 85,
     memory_pause |-> 92]

cache_ttl == 1
max_agent_states == 15
throttler_cleanup_interval == 30
throttler_stale_threshold == 300

\* "if max_level.value < L.value: max_level = L"
Raise(max_level, level) == IF max_level < level THEN level ELSE max_level

\* mutant: the memory bands assign their level without the comparison
calculate_throttle_level_memory_wins(resources) ==
    LET th == ResourceThresholds
        cpu == resources.cpu_percent
        memory == resources.memory_percent
        after_cpu ==
            IF cpu >= th.cpu_pause THEN ThrottleLevel.PAUSE
            ELSE IF cpu >= th.cpu_heavy THEN Raise(ThrottleLevel.NONE, ThrottleLevel.HEAVY)
            ELSE IF cpu >= th.cpu_moderate
                 THEN Raise(ThrottleLevel.NONE, ThrottleLevel.MODERATE)
            ELSE IF cpu >= th.cpu_light THEN Raise(ThrottleLevel.NONE, ThrottleLevel.LIGHT)
            ELSE ThrottleLevel.NONE
    IN  IF memory >= th.memory_pause THEN ThrottleLevel.PAUSE
        ELSE IF memory >= th.memory_heavy THEN ThrottleLevel.HEAVY
        ELSE IF memory >= th.memory_moderate THEN ThrottleLevel.MODERATE
        ELSE IF memory >= th.memory_light THEN ThrottleLevel.LIGHT
        ELSE after_cpu

\* calculate_throttle_level: the level (the reason text is left out)
calculate_throttle_level(resources) ==
    LET th == ResourceThresholds
        cpu == resources.cpu_percent
        memory == resources.memory_percent
        after_cpu ==
            IF cpu >= th.cpu_pause THEN ThrottleLevel.PAUSE
            ELSE IF cpu >= th.cpu_heavy THEN Raise(ThrottleLevel.NONE, ThrottleLevel.HEAVY)
            ELSE IF cpu >= th.cpu_moderate
                 THEN Raise(ThrottleLevel.NONE, ThrottleLevel.MODERATE)
            ELSE IF cpu >= th.cpu_light THEN Raise(ThrottleLevel.NONE, ThrottleLevel.LIGHT)
            ELSE ThrottleLevel.NONE
    IN  IF memory >= th.memory_pause THEN ThrottleLevel.PAUSE
        ELSE IF memory >= th.memory_heavy THEN Raise(after_cpu, ThrottleLevel.HEAVY)
        ELSE IF memory >= th.memory_moderate THEN Raise(after_cpu, ThrottleLevel.MODERATE)
        ELSE IF memory >= th.memory_light THEN Raise(after_cpu, ThrottleLevel.LIGHT)
        ELSE after_cpu

\* the multipliers of get_delay_for_level, in tenths
multipliers == <<15, 25, 50, 150>>

\* get_delay_for_level; jitter is random.uniform(0.8, 1.2) in tenths
get_delay_for_level(level, base_delay, jitter) ==
    LET multiplier == IF level = ThrottleLevel.NONE THEN 10 ELSE multipliers[level]
    IN  (base_delay * multiplier * jitter) \div 100

ThrottleState(base_delay, now) ==
    [level |-> ThrottleLevel.NONE, base_delay |-> base_delay,
     current_delay |-> base_delay, pause_until |-> NoTime,
     consecutive_high_usage |-> 0, last_check |-> now]

EmptyThrottler ==
    [agent_states |-> <<>>, last_cleanup |-> 0, cached_resources |-> NoResources,
     cache_time |-> NoTime]

throttler_register_agent(t, agent_id, base_delay, now) ==
    IF agent_id \in DOMAIN t.agent_states THEN t
    ELSE [t EXCEPT !.agent_states =
            [a \in DOMAIN @ \cup {agent_id} |->
                IF a = agent_id THEN ThrottleState(base_delay, now) ELSE @[a]]]

throttler_unregister_agent(t, agent_id) ==
    [t EXCEPT !.agent_states = [a \in DOMAIN @ \ {agent_id} |-> @[a]]]

\* the agents left when the n least recently checked ones go
RECURSIVE EvictLeastRecent(_, _)
EvictLeastRecent(states, n) ==
    IF n <= 0 \/ DOMAIN states = {} THEN states
    ELSE LET a == CHOOSE x \in DOMAIN states :
                      \A y \in DOMAIN states : states[x].last_check <= states[y].last_check
         IN  EvictLeastRecent([y \in DOMAIN states \ {a} |-> states[y]], n - 1)

\* _cleanup_stale_agents
cleanup_stale_agents(t, now) ==
    IF now - t.last_cleanup < throttler_cleanup_interval THEN t
    ELSE LET fresh == {a \in DOMAIN t.agent_states :
                          ~(now - t.agent_states[a].last_check > throttler_stale_threshold)}
             kept == [a \in fresh |-> t.agent_states[a]]
         IN  [t EXCEPT !.last_cleanup = now,
                       !.agent_states =
                           EvictLeastRecent(kept, Cardinality(fresh) - max_agent_states)]

\* what check_and_throttle returns; pause_remaining and delay are 0 where the
\* dict has no such key
ThrottleResult(level, should_pause, pause_remaining, delay) ==
    [throttle_level |-> level, should_pause |-> should_pause,
     pause_remaining |-> pause_remaining, delay |-> delay]

\* check_and_throttle up to the sampling (lines 259-275): done tells whether the
\* call returned there
check_and_throttle_enter(t, agent_id, now) ==
    LET registered == throttler_register_agent(cleanup_stale_agents(t, now), agent_id,
                                               default_base_delay, now)
        state == registered.agent_states[agent_id]
    IN  IF state.pause_until # NoTime /\ now < state.pause_until
        THEN [t |-> registered, done |-> TRUE,
              ret |-> ThrottleResult(ThrottleLevel.PAUSE, TRUE, state.pause_until - now, 0)]
        ELSE [t |-> registered, done |-> FALSE,
              ret |-> ThrottleResult(ThrottleLevel.NONE, FALSE, 0, 0)]

\* get_system_resources_async: whether the cached sample is returned
CacheFresh(t, now) == t.cache_time # NoTime /\ now - t.cache_time < cache_ttl

\* what the executor answers: the percentages, or a failure of the sampling
Sample(cpu, memory) == [failed |-> FALSE, cpu_percent |-> cpu, memory_percent |-> memory]
SamplingError == [failed |-> TRUE, cpu_percent |-> 0, memory_percent |-> 0]

\* get_system_resources_async once the executor has answered; started is the
\* time read when the call began
sample_resources(t, started, sample) ==
    LET resources == [cpu_percent |-> sample.cpu_percent,
                      memory_percent |-> sample.memory_percent]
    IN  IF sample.failed
        THEN [t |-> t, resources |-> NoResources]
        ELSE [t |-> [t EXCEPT !.cached_resources = resources, !.cache_time = started],
              resources |-> resources]

Min(a, b) == IF a < b THEN a ELSE b
Max(a, b) == IF a > b THEN a ELSE b

\* mutant: every level other than Pause decrements the counter
check_and_throttle_resolve_always_decrements(state, resources, now, jitter) ==
    LET level == calculate_throttle_level(resources)
        Finish(st) ==
            LET delay == get_delay_for_level(level, st.base_delay, jitter)
            IN  [state |-> [st EXCEPT !.level = level, !.current_delay = delay,
                                      !.last_check = now],
                 ret |-> ThrottleResult(level, FALSE, 0, delay), level |-> level]
    IN  IF level = ThrottleLevel.PAUSE
        THEN LET counted == [state EXCEPT !.consecutive_high_usage = @ + 1]
             IN  IF counted.consecutive_high_usage >= 3
                 THEN LET pause_duration == Min(60, 10 * counted.consecutive_high_usage)
                      IN  [state |-> [counted EXCEPT !.pause_until = now + pause_duration],
                           ret |-> ThrottleResult(level, TRUE, pause_duration, 0),
                           level |-> level]
                 ELSE Finish(counted)
        ELSE Finish([state EXCEPT !.consecutive_high_usage = Max(0, @ - 1),
                                  !.pause_until = NoTime])

\* check_and_throttle from the computed level on (lines 278-318), on the state
\* object the call holds
check_and_throttle_resolve(state, resources, now, jitter) ==
    LET level == calculate_throttle_level(resources)
        Finish(st) ==
            LET delay == get_delay_for_level(level, st.base_delay, jitter)
            IN  [state |-> [st EXCEPT !.level = level, !.current_delay = delay,
                                      !.last_check = now],
                 ret |-> ThrottleResult(level, FALSE, 0, delay), level |-> level]
    IN  IF level = ThrottleLevel.PAUSE
        THEN LET counted == [state EXCEPT !.consecutive_high_usage = @ + 1]
             IN  IF counted.consecutive_high_usage >= 3
                 THEN LET pause_duration == Min(60, 10 * counted.consecutive_high_usage)
                      IN  [state |-> [counted EXCEPT !.pause_until = now + pause_duration],
                           ret |-> ThrottleResult(level, TRUE, pause_duration, 0),
                           level |-> level]
                 ELSE Finish(counted)
        ELSE Finish([state EXCEPT !.consecutive_high_usage =
                                      IF level < ThrottleLevel.HEAVY THEN Max(0, @ - 1)
                                                                     ELSE @,
                                  !.pause_until = NoTime])

----------------------------------------------------------------------------
(* RateLimiter.  Times and delays are whole microseconds; model names are
   sequences of characters. *)

Micro == 1000000

default_limits ==
    [requests_per_minute |-> 60, tokens_per_minute |-> 90000, min_delay |-> Micro,
     max_delay |-> 30 * Micro, backoff_multiplier |-> 2]

\* model_specific_limits, in the order of the dict
model_specific_limits ==
    <<[key |-> <<"c", "l", "a", "u", "d", "e", "-", "3", "-", "5", "-", "s", "o", "n", "n", "e", "t">>,
       requests_per_minute |-> 50, min_delay |-> 1200000],
      [key |-> <<"g", "p", "t", "-", "4", "-", "t", "u", "r", "b", "o">>,
       requests_per_minute |-> 40, min_delay |-> 1500000],
      [key |-> <<"g", "p", "t", "-", "4", "o">>,
       requests_per_minute |-> 60, min_delay |-> 1000000],
      [key |-> <<"g", "p", "t", "-", "4", "o", "-", "m", "i", "n", "i">>,
       requests_per_minute |-> 100, min_delay |-> 600000],
      [key |-> <<"c", "l", "a", "u", "d", "e", "-", "3", "-", "o", "p", "u", "s">>,
       requests_per_minute |-> 30, min_delay |-> 2000000],
      [key |-> <<"c", "l", "a", "u", "d", "e", "-", "3", "-", "h", "a", "i", "k", "u">>,
       requests_per_minute |-> 100, min_delay |-> 600000],
      [key |-> <<"g", "e", "m", "i", "n", "i", "-", "p", "r", "o">>,
       requests_per_minute |-> 60, min_delay |-> 1000000]>>

max_model_states == 10
limiter_cleanup_interval == 60
limiter_stale_threshold == 600
window_length == 60
max_cooldown == 300

\* str.lower on the letters A-Z
LowerCase ==
    "A" :> "a" @@ "B" :> "b" @@ "C" :> "c" @@ "D" :> "d" @@ "E" :> "e" @@ "F" :> "f" @@
    "G" :> "g" @@ "H" :> "h" @@ "I" :> "i" @@ "J" :> "j" @@ "K" :> "k" @@ "L" :> "l" @@
    "M" :> "m" @@ "N" :> "n" @@ "O" :> "o" @@ "P" :> "p" @@ "Q" :> "q" @@ "R" :> "r" @@
    "S" :> "s" @@ "T" :> "t" @@ "U" :> "u" @@ "V" :> "v" @@ "W" :> "w" @@ "X" :> "x" @@
    "Y" :> "y" @@ "Z" :> "z"

lower(s) == [i \in DOMAIN s |-> IF s[i] \in DOMAIN LowerCase THEN LowerCase[s[i]] ELSE s[i]]

\* s.split("/")[-1]
LastSegment(s) ==
    LET slashes == {i \in DOMAIN s : s[i] = "/"}
    IN  IF slashes = {} THEN s
        ELSE SubSeq(s, (CHOOSE i \in slashes : \A j \in slashes : j <= i) + 1, Len(s))

\* "sub in s" for strings
Contains(sub, s) ==
    \E i \in 0..(Len(s) - Len(sub)) : SubSeq(s, i + 1, i + Len(sub)) = sub

\* _get_model_config: the first key of model_specific_limits that occurs in the
\* lowered last segment of the name overrides the defaults
get_model_config(model_name) ==
    LET model_key == lower(LastSegment(model_name))
        hits == {i \in DOMAIN model_specific_limits :
                    Contains(model_specific_limits[i].key, model_key)}
    IN  IF hits = {} THEN default_limits
        ELSE LET config == model_specific_limits[FirstIndex(hits)]
             IN  [default_limits EXCEPT
                    !.requests_per_minute = config.requests_per_minute,
                    !.min_delay = config.min_delay]

EmptyLimiter == [model_state |-> <<>>, last_cleanup |-> 0]

\* the model states left when the n least recently requested ones go (a state
\* without a request counts as the oldest)
RECURSIVE EvictLeastRecentlyRequested(_, _)
EvictLeastRecentlyRequested(states, n) ==
    IF n <= 0 \/ DOMAIN states = {} THEN states
    ELSE LET m == CHOOSE x \in DOMAIN states :
                      \A y \in DOMAIN states :
                          states[x].last_request <= states[y].last_request
         IN  EvictLeastRecentlyRequested([y \in DOMAIN states \ {m} |-> states[y]], n - 1)

\* _cleanup_stale_models
cleanup_stale_models(rl, now) ==
    IF now - rl.last_cleanup < limiter_cleanup_interval * Micro THEN rl
    ELSE LET fresh == {m \in DOMAIN rl.model_state :
                          ~(/\ rl.model_state[m].last_request # NoTime
                            /\ now - rl.model_state[m].last_request
                                   > limiter_stale_threshold * Micro)}
             kept == [m \in fresh |-> rl.model_state[m]]
         IN  [rl EXCEPT !.last_cleanup = now,
                        !.model_state =
                            EvictLeastRecentlyRequested(
                                kept, Cardinality(fresh) - max_model_states)]

NewModelState(model_name, now) ==
    [requests_this_minute |-> 0, tokens_this_minute |-> 0, minute_start |-> now,
     last_request |-> NoTime, consecutive_errors |-> 0,
     current_delay |-> get_model_config(model_name).min_delay,
     in_cooldown |-> FALSE, cooldown_until |-> NoTime]

\* _get_state: the limiter after the cleanup, holding a state for the model
get_state(rl, model_name, now) ==
    LET cleaned == cleanup_stale_models(rl, now)
    IN  IF model_name \in DOMAIN cleaned.model_state THEN cleaned
        ELSE [cleaned EXCEPT !.model_state =
                [m \in DOMAIN @ \cup {model_name} |->
                    IF m = model_name THEN NewModelState(model_name, now) ELSE @[m]]]

RateResult(proceed, wait_time, reason) ==
    [proceed |-> proceed, wait_time |-> wait_time, reason |-> reason]

\* the window's request count has reached 90% of requests_per_minute
near_request_limit_above(state, config) ==
    state.requests_this_minute * 10 > config.requests_per_minute * 9

near_request_limit(state, config) ==
    state.requests_this_minute * 10 >= config.requests_per_minute * 9

\* min(current_delay * 1.5, max_delay)
grow_delay(current_delay, config) == Min((current_delay * 3) \div 2, config.max_delay)

\* the one element of a set of one element
The(S) == CHOOSE x \in S : TRUE

\* the body of acquire once config and state are fetched: got is the limiter as
\* _get_state left it, found the state dict it returned; jitter is
\* random.uniform(0.1, 0.5)
acquire_locked(got, config, model_name, estimated_tokens, now, jitter) ==
    LET found == got.model_state[model_name]
        Leave(state, ret) ==
            [rl |-> [got EXCEPT !.model_state[model_name] = state], ret |-> ret,
             found |-> found]
        cooling == found.in_cooldown /\ found.cooldown_until # NoTime
    IN  IF cooling /\ now < found.cooldown_until
        THEN Leave(found, RateResult(FALSE, found.cooldown_until - now, "cooldown"))
        ELSE LET cooled == IF cooling
                           THEN [found EXCEPT !.in_cooldown = FALSE,
                                              !.cooldown_until = NoTime,
                                              !.consecutive_errors = 0]
                           ELSE found
                 windowed == IF now - cooled.minute_start >= window_length * Micro
                             THEN [cooled EXCEPT !.requests_this_minute = 0,
                                                 !.tokens_this_minute = 0,
                                                 !.minute_start = now,
                                                 !.current_delay = config.min_delay]
                             ELSE cooled
                 near == near_request_limit(windowed, config)
                 wait_time == window_length * Micro - (now - windowed.minute_start)
                 grown == IF near
                          THEN [windowed EXCEPT !.current_delay = grow_delay(@, config)]
                          ELSE windowed
                 elapsed == now - grown.last_request
                 delay == IF grown.last_request = NoTime THEN grown.current_delay
                          ELSE IF elapsed < grown.current_delay
                               THEN grown.current_delay - elapsed
                               ELSE 0
             IN  IF near /\ wait_time > 0
                 THEN Leave(grown, RateResult(TRUE, wait_time, "rate limit"))
                 ELSE IF (grown.tokens_this_minute + estimated_tokens) * 10
                             >= config.tokens_per_minute * 9
                 THEN Leave(grown, RateResult(TRUE, Max(wait_time, grown.current_delay),
                                              "token limit"))
                 ELSE Leave(grown, RateResult(TRUE, delay + jitter, "normal"))

\* acquire
acquire(rl, model_name, estimated_tokens, now, jitter) ==
    The({acquire_locked(got, config, model_name, estimated_tokens, now, jitter) :
            got \in {get_state(rl, model_name, now)},
            config \in {get_model_config(model_name)}})

\* the delay after a successful request: 0.9 of it, not below min_delay
decay_delay(current_delay, config) ==
    IF current_delay > config.min_delay
    THEN Max(config.min_delay, (current_delay * 9) \div 10)
    ELSE current_delay

\* the delay after a failed request: backoff_multiplier times it, not above
\* max_delay
backoff_delay_uncapped(current_delay, config) ==
    current_delay * config.backoff_multiplier

backoff_delay(current_delay, config) ==
    Min(config.max_delay, current_delay * config.backoff_multiplier)

\* record_request
record_request(rl, model_name, tokens_used, success, now) ==
    LET got == get_state(rl, model_name, now)
        config == get_model_config(model_name)
        found == got.model_state[model_name]
        counted == [found EXCEPT !.requests_this_minute = @ + 1,
                                 !.tokens_this_minute = @ + tokens_used,
                                 !.last_request = now]
        state == IF success
                 THEN [counted EXCEPT !.consecutive_errors = 0,
                                      !.current_delay = decay_delay(@, config)]
                 ELSE [counted EXCEPT !.consecutive_errors = @ + 1,
                                      !.current_delay = backoff_delay(@, config)]
    IN  [rl |-> [got EXCEPT !.model_state[model_name] = state], found |-> found]

\* a caller that passes no retry_after
NoRetryAfter == -1

\* delay * 2 ** errors, the doubling stopped once the ceiling is passed
RECURSIVE Doubled(_, _, _)
Doubled(delay, errors, ceiling) ==
    IF errors = 0 \/ delay >= ceiling THEN delay
    ELSE Doubled(2 * delay, errors - 1, ceiling)

\* handle_rate_limit_error; retry_after is in seconds
handle_rate_limit_error(rl, model_name, retry_after, now) ==
    LET got == get_state(rl, model_name, now)
        config == get_model_config(model_name)
        found == got.model_state[model_name]
        cooldown ==
            IF retry_after # NoRetryAfter /\ retry_after # 0
            THEN retry_after * Micro
            ELSE Min(Doubled(config.max_delay, found.consecutive_errors,
                             max_cooldown * Micro),
                     max_cooldown * Micro)
        state == [found EXCEPT !.in_cooldown = TRUE,
                               !.cooldown_until = now + cooldown,
                               !.consecutive_errors = @ + 1]
    IN  [rl |-> [got EXCEPT !.model_state[model_name] = state],
         ret |-> [cooldown_seconds |-> cooldown], found |-> found]

----------------------------------------------------------------------------
(* State of the queue as one value, and its reachable "start" states *)

Q == [instructions |-> instructions,
      instruction_counter |-> instruction_counter,
      executed_instructions |-> executed_instructions]

\* the dict of a command that agent-1 claimed and completed
Finished(id, cmd) ==
    [NewInstruction(id, cmd) EXCEPT !.status = "completed", !.claimed_by = "agent-1",
                                    !.started_at = "ts", !.completed_at = "ts",
                                    !.result = "completed"]

\* the queue after h commands were added, claimed and completed in order by
\* agent-1, and p more commands were added
Preload(p, h) ==
    [instructions |-> [i \in 1..p |-> NewInstruction(h + i, <<"w">>)],
     instruction_counter |-> h + p,
     executed_instructions |-> [i \in 1..h |-> Finished(i, <<"w">>)]]

\* the ids a caller passes: ids at the head of the active list, ids of the most
\* recently completed items, and an id that was never issued
IdInputs ==
    {instructions[i].id : i \in {j \in DOMAIN instructions : j <= IdWindow}}
    \cup {executed_instructions[i].id :
            i \in {j \in DOMAIN executed_instructions :
                     j > Len(executed_instructions) - HistWindow}}
    \cup {instruction_counter + 1}

\* a call and its outcome: arg is the command, error or result passed (None if
\* none), ok the boolean returned (for claim_next: whether an item came back),
\* item the dict returned by claim_next, n the integer returned by the add methods
Call(op, agent, id, arg, ok, item, n) ==
    [op |-> op, agent |-> agent, id |-> id, arg |-> arg, ok |-> ok, item |-> item,
     n |-> n]

\* the snapshots that are held somewhere: in a listener's queue or by the last
\* caller of get_queue_state
SnapshotsIn(queues, ret) ==
    {ret[i] : i \in DOMAIN ret}
       \cup UNION {{queues[l][i] : i \in DOMAIN queues[l]} : l \in DOMAIN queues}

\* the end of a mutating method, after the lock is released: if a snapshot was
\* taken under the lock the listeners are notified with it
Notified(q, taken) ==
    /\ delivered' = IF taken
                    THEN notify_listeners_sync(listeners, delivered,
                                               get_queue_state_unlocked(q))
                    ELSE delivered
    /\ detached' = left_behind(Q, q, detached, SnapshotsIn(delivered', returned))
    /\ UNCHANGED <<listeners, returned>>

\* the queue becomes q; complete_instruction is the one method that writes the
\* history, and a call that succeeds appends a dict whose id was never in it
SetQ(q) ==
    /\ instructions' = q.instructions
    /\ instruction_counter' = q.instruction_counter
    /\ executed_instructions' = q.executed_instructions
    /\ completions' = IF q.executed_instructions # executed_instructions
                      THEN completions + 1 ELSE completions

NewRun(q) == [n |-> Len(Pending(q.instructions)), rets |-> <<>>]

Release(h, agent, id) ==
    [h EXCEPT ![agent] = {c \in @ : c.id # id}]

Start(q, budget) ==
    /\ instructions = q.instructions
    /\ instruction_counter = q.instruction_counter
    /\ executed_instructions = q.executed_instructions
    /\ run = NewRun(q)
    /\ last = Call("init", None, 0, None, FALSE, NoItem, 0)
    /\ held = [a \in Agents |-> {}]
    /\ cleared = {}
    /\ completions = Len(q.executed_instructions)
    /\ steps = budget

B == [message_queue |-> message_queue, subscriptions |-> subscriptions,
      message_counter |-> message_counter, completed_tasks |-> completed_tasks,
      in_progress_tasks |-> in_progress_tasks, shared_discoveries |-> shared_discoveries]

SetB(b) ==
    /\ message_queue' = b.message_queue
    /\ subscriptions' = b.subscriptions
    /\ message_counter' = b.message_counter
    /\ completed_tasks' = b.completed_tasks
    /\ in_progress_tasks' = b.in_progress_tasks
    /\ shared_discoveries' = b.shared_discoveries

Idle == [op |-> "none", task |-> 0, pc |-> "idle"]

\* a task call and its outcome; was: the agent the identifier was in progress
\* for when the call came (None if for nobody); finished: whether complete_task
\* had been called for the identifier before
TaskCall(op, agent, task, ret, was, finished) ==
    [op |-> op, agent |-> agent, task |-> task, ret |-> ret, was |-> was,
     finished |-> finished]

\* one more claim_task call returned true for the identifier
Granted(g, task) ==
    [t \in DOMAIN g \cup {task} |->
        IF t = task THEN (IF t \in DOMAIN g THEN g[t] ELSE 0) + 1 ELSE g[t]]

Claimant(task) ==
    IF task \in DOMAIN in_progress_tasks THEN in_progress_tasks[task] ELSE None

\* the bus after k tasks (1..k) were completed, each complete_task sending its
\* broadcast to nobody, and the agents registered afterwards
BusPreload(k) ==
    register_agent(
        register_agent([EmptyBus EXCEPT !.completed_tasks = 1..k,
                                        !.message_counter = k],
                       "agent-1"),
        "agent-2")

\* the bus after both agents registered and agent-2 shared n discoveries, each
\* with its broadcast: the first under ("p", "y"), the others under ("h", i)
BusLoaded(n) ==
    LET dtype(i) == IF i = 1 THEN <<"p">> ELSE <<"h">>
        dkey(i) == IF i = 1 THEN <<"y">> ELSE <<ToString(i)>>
        first == IF n > max_messages_per_agent THEN n - max_messages_per_agent ELSE 0
    IN  [BusPreload(0) EXCEPT
           !.shared_discoveries =
               [i \in 1..n |-> Discovery("agent-2", dtype(i), dkey(i), "d2")],
           !.message_counter = n,
           !.message_queue["agent-1"] =
               [j \in 1..(n - first) |->
                   [DiscoveryMessage("agent-2", dtype(first + j), dkey(first + j), "d2")
                       EXCEPT !.id = first + j]]]

\* a share_discovery call and its outcome; known: whether the ledger held the key
\* when the call came; first: whether it is the first call for its (type, key)
ShareCall(op, agent, discovery_type, key, data, ret, known, first) ==
    [op |-> op, agent |-> agent, type |-> discovery_type, key |-> key, data |-> data,
     ret |-> ret, known |-> known, first |-> first]

NoMessage == AgentMessage(None, None, "none", [action |-> "none"])

BusStart(b, budget) ==
    /\ message_queue = b.message_queue
    /\ subscriptions = b.subscriptions
    /\ message_counter = b.message_counter
    /\ completed_tasks = b.completed_tasks
    /\ in_progress_tasks = b.in_progress_tasks
    /\ shared_discoveries = b.shared_discoveries
    /\ bus_call = [a \in Agents |-> Idle]
    /\ tlast = TaskCall("init", None, 0, FALSE, None, FALSE)
    /\ finished_tasks = b.completed_tasks
    /\ completion_order = [i \in 1..Cardinality(b.completed_tasks) |-> i]
    /\ dlast = ShareCall("init", None, <<>>, <<>>, None, FALSE, FALSE, FALSE)
    /\ first_share =
          [p \in {<<b.shared_discoveries[i].type, b.shared_discoveries[i].key>> :
                    i \in DOMAIN b.shared_discoveries} |->
              LET e == LedgerEntry(b.shared_discoveries, discovery_key(p[1], p[2]))
              IN  [agent |-> e.agent_id, data |-> e.data]]
    /\ grants = <<>>
    /\ sent = [message |-> NoMessage, ret |-> FALSE]
    /\ bsteps = budget

T == [agent_states |-> agent_states, last_cleanup |-> throttler_last_cleanup,
      cached_resources |-> cached_resources, cache_time |-> cache_time]

SetT(t) ==
    /\ agent_states' = t.agent_states
    /\ throttler_last_cleanup' = t.last_cleanup
    /\ cached_resources' = t.cached_resources
    /\ cache_time' = t.cache_time

\* an agent that is not inside check_and_throttle
NoCall == [pc |-> "idle", state |-> ThrottleState(0, 0), started |-> 0,
           attached |-> FALSE]

\* a check_and_throttle call that returned: resolved tells whether it computed a
\* level, before is the state object as the call found it (line 265), state the
\* state object as the call left it, at the time of the return
ThrottleCheck(agent, resolved, level, before, state, ret, at) ==
    [agent |-> agent, resolved |-> resolved, level |-> level,
     was |-> before.consecutive_high_usage, paused_until |-> before.pause_until,
     state |-> state, ret |-> ret, at |-> at]

\* a sample whose level was not computed yet
NoLevel == -1
NoSample == [resources |-> NoResources, level |-> NoLevel]

ThrottleStart(t, now, budget) ==
    /\ agent_states = t.agent_states
    /\ throttler_last_cleanup = t.last_cleanup
    /\ cached_resources = t.cached_resources
    /\ cache_time = t.cache_time
    /\ throttle_call = [a \in Agents |-> NoCall]
    /\ tnow = now
    /\ thlast = ThrottleCheck(None, FALSE, 0, ThrottleState(0, 0), ThrottleState(0, 0),
                              ThrottleResult(0, FALSE, 0, 0), 0)
    /\ thsteps = budget

\* the rate limiter as one value
R == [model_state |-> model_state, last_cleanup |-> limiter_last_cleanup]

SetR(rl) ==
    /\ model_state' = rl.model_state
    /\ limiter_last_cleanup' = rl.last_cleanup

\* the record of a rate limiter call: found is the model's state as _get_state
\* returned it (after the cleanup), ret what acquire returned, cooldown what
\* handle_rate_limit_error returned
RateCall(op, model, retry_after, tokens_used, success, found, ret, cooldown, at) ==
    [op |-> op, model |-> model, retry_after |-> retry_after,
     tokens_used |-> tokens_used, success |-> success, found |-> found, ret |-> ret,
     cooldown |-> cooldown, at |-> at]

RateStart(rl, now, budget) ==
    /\ model_state = rl.model_state
    /\ limiter_last_cleanup = rl.last_cleanup
    /\ rnow = now
    /\ rlast = RateCall(None, <<>>, NoRetryAfter, 0, FALSE, NewModelState(<<>>, 0),
                        RateResult(FALSE, 0, None), 0, now)
    /\ rsteps = budget

\* the rate limiter is not used
\* no model reply, and the reply a worker holds: marker tells whether the text
\* carries "<END!>" or a "status": "END" pair, json how json.loads takes the
\* cleaned text ("invalid": JSONDecodeError, "value": a value that is not an
\* object, "object"), numbered the RUN commands under the object's digit keys,
\* matches the commands the RUN pattern finds in the raw text
Reply(marker, json, numbered, matches) ==
    [marker |-> marker, json |-> json, numbered |-> numbered, matches |-> matches]

NoReply == Reply(FALSE, "none", <<>>, <<>>)

\* an AgentWorker as start() hands it to _run_autonomous_loop: execution_duration
\* in minutes (0: none), at the `while` test of the loop
NewWorker(model_name, allowed_tools_only, requested_tools, execution_duration, now) ==
    [pc |-> "loop", status |-> "running", stopped |-> FALSE, paused |-> FALSE,
     iteration |-> 0, instruction |-> NoItem, wake |-> NoTime, response |-> NoReply,
     model_name |-> model_name, allowed_tools_only |-> allowed_tools_only,
     requested_tools |-> requested_tools, execution_duration |-> execution_duration,
     execution_start_time |-> now]

\* what is remembered of a worker's run: the model requests it issued (one in
\* every iteration it began before the behaviour starts), whether a
\* reply carried the end marker, whether a request failed on authentication,
\* whether stop() was called, the admission calls that returned in the current
\* iteration
NoneSeen == [requests |-> 0, ended |-> FALSE, auth_failed |-> FALSE,
             stop_called |-> FALSE, admitted |-> {}]

\* a step of a worker: began is the set of operations the step began ("sleep",
\* "claim_next", "acquire", "request"), claimed the items claim_next gave it,
\* enqueued the commands it passed to add_instructions, reply the reply it
\* processed (NoReply if none), failure whether it recorded a failed request
WorkerStep(n, agent, step, began, claimed, enqueued, reply, failure) ==
    [n |-> n, agent |-> agent, step |-> step, began |-> began, claimed |-> claimed,
     enqueued |-> enqueued, reply |-> reply, failure |-> failure]

WorkersStart(ws, budget, events) ==
    /\ worker = ws
    /\ wseen = [a \in Agents |-> [NoneSeen EXCEPT !.requests = ws[a].iteration]]
    /\ wlast = WorkerStep(0, None, "init", {}, <<>>, <<>>, NoReply, FALSE)
    /\ wsteps = budget
    /\ wevents = events

WorkersOff == WorkersStart([a \in Agents |-> NewWorker(<<>>, FALSE, {}, 0, 0)], 0, 0)

\* a coroutine that is not inside a bus call; inside one: the message it sends,
\* the agent whose push handler it runs, whether that handler sent its answer
NoBusTask == [pc |-> "idle", message |-> NoMessage, handler |-> None,
              answered |-> FALSE]

LockStart(handlers, budget) ==
    /\ bus_lock = None
    /\ bus_task = [a \in Agents |-> NoBusTask]
    /\ message_handlers = handlers
    /\ lsteps = budget

LockOff == LockStart({}, 0)

\* a queue nobody observes: no listener was added, no snapshot is held
NoObservers ==
    /\ listeners = <<>>
    /\ delivered = <<>>
    /\ returned = <<>>
    /\ detached = <<>>

\* the workers that share one model of the rate limiter
Callers == {"worker-1", "worker-2", "worker-3"}

\* a caller between two requests; in a cycle: wake is the end of its sleep
IdleCaller == [pc |-> "idle", wake |-> NoTime]

\* what is remembered of a caller's rate-limited requests: k of them in a row
\* since its last successful request, cooldown the cooldown the last of them
\* was answered with, base the model's consecutive_errors when the first of
\* them came
NoStreak == [k |-> 0, cooldown |-> 0, base |-> 0]

CallersIdle ==
    /\ caller = [c \in Callers |-> IdleCaller]
    /\ streak = [c \in Callers |-> NoStreak]
    /\ users = {}

ProcsOff == WorkersOff /\ LockOff /\ NoObservers /\ CallersIdle

RateOff == RateStart(EmptyLimiter, 0, 0) /\ ProcsOff

\* neither the throttler nor the rate limiter is used
ThrottleOff ==
    /\ ThrottleStart(EmptyThrottler, 0, 0)
    /\ levels = <<NoSample, NoSample>>
    /\ RateOff

\* a new queue (__init__); the bus is not used
Init == Start(EmptyQueue, MaxSteps) /\ BusStart(EmptyBus, 0) /\ ThrottleOff

\* a queue that has reached both of its limits
InitFull ==
    /\ Start(Preload(max_instructions, max_executed_history), MaxFullSteps)
    /\ BusStart(EmptyBus, 0)
    /\ ThrottleOff

\* the bus with two registered agents, new or with a full completed set; the
\* queue is not used
InitTasks ==
    /\ Start(EmptyQueue, 0)
    /\ \E k \in {0, max_completed_tasks} : BusStart(BusPreload(k), MaxBusSteps)
    /\ ThrottleOff

\* the task identifiers callers pass: one that is completed in the full start
\* state, and two that are not
TaskInputs == {1, max_completed_tasks + 1, max_completed_tasks + 2}

AddInstructions ==
    /\ steps > 0
    /\ \E commands \in BatchInputs :
          LET r == add_instructions(Q, commands)
          IN  /\ SetQ(r.q)
              /\ Notified(r.q, TRUE)
              /\ last' = Call("add_instructions", None, 0, commands, TRUE, NoItem, r.ret)
              /\ run' = NewRun(r.q)
    /\ steps' = steps - 1
    /\ UNCHANGED <<busvars, thrvars, ratevars, workervars, lockvars, callvars>>
    /\ UNCHANGED <<held, cleared>>

AddInstruction ==
    /\ steps > 0
    /\ \E command \in CmdInputs :
          LET r == add_instruction(Q, command)
          IN  /\ SetQ(r.q)
              /\ Notified(r.q, r.ret # -1)
              /\ last' = Call("add_instruction", None, 0, command, r.ret # -1, NoItem, r.ret)
              /\ run' = NewRun(r.q)
    /\ steps' = steps - 1
    /\ UNCHANGED <<busvars, thrvars, ratevars, workervars, lockvars, callvars>>
    /\ UNCHANGED <<held, cleared>>

ClaimNext ==
    /\ steps > 0
    /\ \E agent \in Agents :
          LET r == claim_next(Q, agent)
          IN  /\ SetQ(r.q)
              /\ Notified(r.q, r.found)
              /\ last' = Call("claim_next", agent, r.ret.id, None, r.found, r.ret, 0)
              /\ run' = [run EXCEPT !.rets = Append(@, r.ret.id)]
              /\ held' = IF r.found THEN [held EXCEPT ![agent] = @ \cup {r.ret}] ELSE held
    /\ steps' = steps - 1
    /\ UNCHANGED <<busvars, thrvars, ratevars, workervars, lockvars, callvars>>
    /\ UNCHANGED cleared

CompleteInstruction ==
    /\ steps > 0
    /\ \E id \in IdInputs, agent \in Agents, result \in ResultInputs :
          LET r == complete_instruction(Q, id, agent, result)
          IN  /\ SetQ(r.q)
              /\ Notified(r.q, r.ret)
              /\ last' = Call("complete_instruction", agent, id, result, r.ret, NoItem, 0)
              /\ run' = NewRun(r.q)
              /\ held' = IF r.ret THEN Release(held, agent, id) ELSE held
    /\ steps' = steps - 1
    /\ UNCHANGED <<busvars, thrvars, ratevars, workervars, lockvars, callvars>>
    /\ UNCHANGED cleared

FailInstruction ==
    /\ steps > 0
    /\ \E id \in IdInputs, agent \in Agents, error \in ErrorInputs :
          LET r == fail_instruction(Q, id, agent, error)
          IN  /\ SetQ(r.q)
              /\ Notified(r.q, r.ret)
              /\ last' = Call("fail_instruction", agent, id, error, r.ret, NoItem, 0)
              /\ run' = NewRun(r.q)
              /\ held' = IF r.ret THEN Release(held, agent, id) ELSE held
    /\ steps' = steps - 1
    /\ UNCHANGED <<busvars, thrvars, ratevars, workervars, lockvars, callvars>>
    /\ UNCHANGED cleared

RemoveInstruction ==
    /\ steps > 0
    /\ \E id \in IdInputs :
          LET r == remove_instruction(Q, id)
          IN  /\ SetQ(r.q)
              /\ Notified(r.q, r.ret)
              /\ last' = Call("remove_instruction", None, id, None, r.ret, NoItem, 0)
              /\ run' = NewRun(r.q)
    /\ steps' = steps - 1
    /\ UNCHANGED <<busvars, thrvars, ratevars, workervars, lockvars, callvars>>
    /\ UNCHANGED <<held, cleared>>

EditInstruction ==
    /\ steps > 0
    /\ \E id \in IdInputs, new_command \in CmdInputs :
          LET r == edit_instruction(Q, id, new_command)
          IN  /\ SetQ(r.q)
              /\ Notified(r.q, r.ret)
              /\ last' = Call("edit_instruction", None, id, new_command, r.ret, NoItem, 0)
              /\ run' = NewRun(r.q)
    /\ steps' = steps - 1
    /\ UNCHANGED <<busvars, thrvars, ratevars, workervars, lockvars, callvars>>
    /\ UNCHANGED <<held, cleared>>

ClearQueue ==
    /\ steps > 0
    /\ LET r == clear_queue(Q)
       IN  /\ SetQ(r.q)
           /\ Notified(r.q, TRUE)
           /\ last' = Call("clear_queue", None, 0, None, TRUE, NoItem, 0)
           /\ run' = NewRun(r.q)
    /\ cleared' = cleared \cup {instructions[i].id :
                                  i \in {j \in DOMAIN instructions :
                                           IsExecuting(instructions[j])}}
    /\ steps' = steps - 1
    /\ UNCHANGED <<busvars, thrvars, ratevars, workervars, lockvars, callvars>>
    /\ UNCHANGED held

Next ==
    \/ AddInstructions
    \/ AddInstruction
    \/ ClaimNext
    \/ CompleteInstruction
    \/ FailInstruction
    \/ RemoveInstruction
    \/ EditInstruction
    \/ ClearQueue

(* The observers of the queue.  add_listener and remove_listener have no await;
   get_queue_state takes the snapshot under the lock. *)

\* a new queue that nobody observes yet
InitListeners ==
    /\ Start(EmptyQueue, MaxListenerSteps)
    /\ BusStart(EmptyBus, 0)
    /\ ThrottleOff

AddListener ==
    /\ steps > 0
    /\ Len(delivered) < MaxListeners
    /\ \E r \in {add_listener(listeners, delivered)} :
          /\ listeners' = r.listeners
          /\ delivered' = r.queues
          /\ last' = Call("add_listener", None, r.ret, None, TRUE, NoItem, 0)
    /\ steps' = steps - 1
    /\ UNCHANGED <<instructions, instruction_counter, executed_instructions, run, held,
                   cleared, completions, returned, detached>>
    /\ UNCHANGED <<busvars, thrvars, ratevars, workervars, lockvars, callvars>>

RemoveListener ==
    /\ steps > 0
    /\ \E queue \in DOMAIN delivered :
          /\ listeners' = remove_listener(listeners, queue)
          /\ last' = Call("remove_listener", None, queue, None, TRUE, NoItem, 0)
    /\ steps' = steps - 1
    /\ UNCHANGED <<instructions, instruction_counter, executed_instructions, run, held,
                   cleared, completions, delivered, returned, detached>>
    /\ UNCHANGED <<busvars, thrvars, ratevars, workervars, lockvars, callvars>>

\* get_queue_state: the caller holds the snapshot it returns, and no longer the
\* one before
GetQueueState ==
    /\ steps > 0
    /\ returned' = <<get_queue_state_unlocked(Q)>>
    /\ detached' = left_behind(Q, Q, detached, SnapshotsIn(delivered, returned'))
    /\ last' = Call("get_queue_state", None, 0, None, TRUE, NoItem, 0)
    /\ steps' = steps - 1
    /\ UNCHANGED <<instructions, instruction_counter, executed_instructions, run, held,
                   cleared, completions, listeners, delivered>>
    /\ UNCHANGED <<busvars, thrvars, ratevars, workervars, lockvars, callvars>>

NextListeners ==
    \/ AddListener
    \/ RemoveListener
    \/ GetQueueState
    \/ AddInstructions
    \/ AddInstruction
    \/ ClaimNext
    \/ CompleteInstruction
    \/ FailInstruction
    \/ RemoveInstruction
    \/ EditInstruction
    \/ ClearQueue

(* Bus calls.  claim_task and complete_task run their locked part, release the
   lock and then await send_message, which takes the lock again: another call's
   locked part can come in between. *)

ClaimTask ==
    /\ bsteps > 0
    /\ \E agent \in Agents, task \in TaskInputs :
          /\ bus_call[agent].pc = "idle"
          /\ LET r == claim_task_locked(B, agent, task)
             IN  /\ SetB(r.b)
                 /\ tlast' = TaskCall("claim_task", agent, task, r.ret,
                                      Claimant(task), task \in finished_tasks)
                 /\ grants' = IF r.ret THEN Granted(grants, task) ELSE grants
                 /\ bus_call' = IF r.ret
                                THEN [bus_call EXCEPT ![agent] =
                                        [op |-> "claim_task", task |-> task, pc |-> "send"]]
                                ELSE bus_call
    /\ bsteps' = bsteps - 1
    /\ UNCHANGED <<finished_tasks, completion_order, dlast, first_share, sent, qvars, thrvars, ratevars, procvars>>

ClaimTaskSend ==
    /\ bsteps > 0
    /\ \E agent \in Agents :
          /\ bus_call[agent].pc = "send"
          /\ bus_call[agent].op = "claim_task"
          /\ SetB(send_message(B, AgentMessage(agent, None, "coordination",
                      [action |-> "task_claimed", task |-> bus_call[agent].task])).b)
          /\ bus_call' = [bus_call EXCEPT ![agent] = Idle]
    /\ bsteps' = bsteps - 1
    /\ UNCHANGED <<tlast, finished_tasks, completion_order, dlast, first_share, sent,
                   qvars, thrvars, ratevars, procvars>>
    /\ UNCHANGED grants

CompleteTask ==
    /\ bsteps > 0
    /\ \E agent \in Agents, task \in TaskInputs :
          /\ bus_call[agent].pc = "idle"
          /\ \E b \in complete_task_locked(B, agent, task) :
                /\ SetB(b)
                /\ completion_order' =
                      LET Kept(t) == t \in b.completed_tasks
                      IN  SelectSeq(IF task \in completed_tasks
                                    THEN completion_order
                                    ELSE Append(completion_order, task), Kept)
          /\ tlast' = TaskCall("complete_task", agent, task, TRUE,
                               Claimant(task), task \in finished_tasks)
          /\ bus_call' = [bus_call EXCEPT ![agent] =
                            [op |-> "complete_task", task |-> task, pc |-> "send"]]
          /\ finished_tasks' = finished_tasks \cup {task}
    /\ bsteps' = bsteps - 1
    /\ UNCHANGED <<dlast, first_share, sent, qvars, thrvars, ratevars, procvars>>
    /\ UNCHANGED grants

CompleteTaskSend ==
    /\ bsteps > 0
    /\ \E agent \in Agents :
          /\ bus_call[agent].pc = "send"
          /\ bus_call[agent].op = "complete_task"
          /\ SetB(send_message(B, AgentMessage(agent, None, "task_completion",
                      [action |-> "task_completed", task |-> bus_call[agent].task])).b)
          /\ bus_call' = [bus_call EXCEPT ![agent] = Idle]
    /\ bsteps' = bsteps - 1
    /\ UNCHANGED <<tlast, finished_tasks, completion_order, dlast, first_share, sent,
                   qvars, thrvars, ratevars, procvars>>
    /\ UNCHANGED grants

NextTasks ==
    \/ ClaimTask
    \/ ClaimTaskSend
    \/ CompleteTask
    \/ CompleteTaskSend

(* Messaging and discovery calls.  share_discovery, like the task calls, runs its
   locked part and then awaits send_message.  The messages sent here (discovery,
   finding, offer_help) are ones the workers' push handlers do not answer on
   the bus. *)

\* a new bus, or one whose ledger and one of whose mailboxes are full; the queue
\* is not used
InitBus ==
    /\ Start(EmptyQueue, 0)
    /\ \E b \in {EmptyBus, BusLoaded(max_discoveries)} : BusStart(b, MaxMsgSteps)
    /\ ThrottleOff

\* discovery types and keys callers pass, some of them holding the separator
DiscoveryTypes == { <<"p">>, <<"p", ":", "x">> }
DiscoveryKeys == { <<"y">>, <<"x", ":", "y">> }
DataInputs == {"d1", "d2"}

RegisterAgent ==
    /\ bsteps > 0
    /\ \E agent \in Agents :
          /\ bus_call[agent].pc = "idle"
          /\ SetB(register_agent(B, agent))
    /\ bsteps' = bsteps - 1
    /\ UNCHANGED <<bus_call, tlast, finished_tasks, completion_order, dlast,
                   first_share, sent, qvars, thrvars, ratevars, procvars>>
    /\ UNCHANGED grants

UnregisterAgent ==
    /\ bsteps > 0
    /\ \E agent \in Agents :
          /\ bus_call[agent].pc = "idle"
          /\ SetB(unregister_agent(B, agent))
    /\ bsteps' = bsteps - 1
    /\ UNCHANGED <<bus_call, tlast, finished_tasks, completion_order, dlast,
                   first_share, sent, qvars, thrvars, ratevars, procvars>>
    /\ UNCHANGED grants

ShareDiscovery ==
    /\ bsteps > 0
    /\ \E agent \in Agents, discovery_type \in DiscoveryTypes, key \in DiscoveryKeys,
          data \in DataInputs, broadcast \in BOOLEAN :
          /\ bus_call[agent].pc = "idle"
          /\ LET r == share_discovery_locked(B, agent, discovery_type, key, data)
                 pair == <<discovery_type, key>>
             IN  /\ SetB(r.b)
                 /\ dlast' = ShareCall("share_discovery", agent, discovery_type, key,
                                       data, r.ret,
                                       discovery_key(discovery_type, key)
                                           \in LedgerKeys(shared_discoveries),
                                       pair \notin DOMAIN first_share)
                 /\ first_share' =
                       IF pair \in DOMAIN first_share THEN first_share
                       ELSE [p \in DOMAIN first_share \cup {pair} |->
                                IF p = pair THEN [agent |-> agent, data |-> data]
                                ELSE first_share[p]]
                 /\ bus_call' =
                       IF r.ret /\ broadcast
                       THEN [bus_call EXCEPT ![agent] =
                               [op |-> "share_discovery", task |-> 0, pc |-> "send",
                                message |-> DiscoveryMessage(agent, discovery_type,
                                                             key, data)]]
                       ELSE bus_call
    /\ bsteps' = bsteps - 1
    /\ UNCHANGED <<tlast, finished_tasks, completion_order, sent, qvars, thrvars, ratevars, procvars>>
    /\ UNCHANGED grants

\* a messaging call sends: send_message as a whole, under the lock
Send(agent, message) ==
    LET r == send_message(B, message)
    IN  /\ SetB(r.b)
        /\ sent' = [message |-> [message EXCEPT !.id = r.b.message_counter],
                    ret |-> r.ret]

ShareDiscoverySend ==
    /\ bsteps > 0
    /\ \E agent \in Agents :
          /\ bus_call[agent].pc = "send"
          /\ bus_call[agent].op = "share_discovery"
          /\ Send(agent, bus_call[agent].message)
          /\ bus_call' = [bus_call EXCEPT ![agent] = Idle]
    /\ bsteps' = bsteps - 1
    /\ UNCHANGED <<tlast, finished_tasks, completion_order, dlast, first_share, qvars, thrvars, ratevars, procvars>>
    /\ UNCHANGED grants

\* share_finding: one broadcast
ShareFinding ==
    /\ bsteps > 0
    /\ \E agent \in Agents :
          /\ bus_call[agent].pc = "idle"
          /\ Send(agent, AgentMessage(agent, None, "finding", [severity |-> "High"]))
    /\ bsteps' = bsteps - 1
    /\ UNCHANGED <<bus_call, tlast, finished_tasks, completion_order, dlast,
                   first_share, qvars, thrvars, ratevars, procvars>>
    /\ UNCHANGED grants

\* offer_help: one direct message
OfferHelp ==
    /\ bsteps > 0
    /\ \E from_agent \in Agents, to_agent \in Agents :
          /\ bus_call[from_agent].pc = "idle"
          /\ Send(from_agent, AgentMessage(from_agent, to_agent, "offer_help",
                                           [helper_agent |-> from_agent]))
    /\ bsteps' = bsteps - 1
    /\ UNCHANGED <<bus_call, tlast, finished_tasks, completion_order, dlast,
                   first_share, qvars, thrvars, ratevars, procvars>>
    /\ UNCHANGED grants

NextBus ==
    \/ RegisterAgent
    \/ UnregisterAgent
    \/ ShareDiscovery
    \/ ShareDiscoverySend
    \/ ShareFinding
    \/ OfferHelp

(* Acknowledgements.  Two registered agents read their mailboxes; findings
   come from them and from a third agent that has no mailbox. *)

Reporters == Agents \cup {"agent-3"}
Severities == {"High", "Low"}

InitAck ==
    /\ Start(EmptyQueue, 0)
    /\ BusStart(BusPreload(0), MaxAckSteps)
    /\ ThrottleOff

AckFrame ==
    UNCHANGED <<bus_call, finished_tasks, completion_order, dlast, first_share,
                grants, qvars, thrvars, ratevars, procvars>>

\* share_finding by any agent
ReportFinding ==
    /\ bsteps > 0
    /\ \E agent \in Reporters, severity \in Severities :
          /\ Send(agent, AgentMessage(agent, None, "finding", [severity |-> severity]))
          /\ tlast' = TaskCall("share_finding", agent, message_counter + 1, TRUE,
                               None, FALSE)
    /\ bsteps' = bsteps - 1
    /\ AckFrame

\* acknowledge_message for an id that was issued, or for the next one
AcknowledgeMessage ==
    /\ bsteps > 0
    /\ \E agent \in Agents, message_id \in 1..(message_counter + 1) :
          /\ SetB(acknowledge_message(B, agent, message_id))
          /\ tlast' = TaskCall("acknowledge_message", agent, message_id, TRUE,
                               None, FALSE)
    /\ bsteps' = bsteps - 1
    /\ sent' = sent
    /\ AckFrame

\* the worker reads its unread messages and clears the first five it got
\* (worker.py, _build_user_message_with_collaboration)
ReadAndClear ==
    /\ bsteps > 0
    /\ \E agent \in Agents :
          LET messages == get_messages(B, agent, {}, NoPriority, 10, TRUE)
              shown == SubSeq(messages, 1, IF Len(messages) < 5 THEN Len(messages) ELSE 5)
          IN  /\ messages # <<>>
              /\ SetB(clear_messages(B, agent, {shown[i].id : i \in DOMAIN shown}))
              /\ tlast' = TaskCall("clear_messages", agent, 0, TRUE, None, FALSE)
    /\ bsteps' = bsteps - 1
    /\ sent' = sent
    /\ AckFrame

NextAck ==
    \/ ReportFinding
    \/ AcknowledgeMessage
    \/ ReadAndClear

(* Throttler calls.  check_and_throttle suspends once, while the executor
   samples the resources, unless the cached sample is still fresh; calls for
   other agents, registrations and the clock can come in between.  A worker
   makes its own calls one after the other. *)

\* one resource sample per level, and a failed sampling
SampleInputs ==
    {Sample(10, 10), Sample(60, 10), Sample(10, 75), Sample(85, 60), Sample(95, 10),
     SamplingError}

\* random.uniform(0.8, 1.2), in tenths
JitterInputs == {8, 12}

\* base delays the workers register with: 1.0, and 1.5 in stealth mode
BaseDelayInputs == {1000, 1500}

\* seconds the clock moves in one step
TickInputs == {1, 30}

\* the state of agent-1 after it met Pause-level samples
Overloaded(counter, pause_until, last_check) ==
    [ThrottleState(default_base_delay, 0) EXCEPT
        !.level = ThrottleLevel.PAUSE,
        !.current_delay = get_delay_for_level(ThrottleLevel.PAUSE, default_base_delay, 8),
        !.consecutive_high_usage = counter,
        !.pause_until = pause_until,
        !.last_check = last_check]

\* the throttler after agent-1 made its checks at the given times, each finding
\* the CPU at 95%: the last check was at `now` and ran the cleanup
ThrottlerUnderLoad(now, counter, pause_until, last_check) ==
    [agent_states |-> [a \in {"agent-1"} |-> Overloaded(counter, pause_until, last_check)],
     last_cleanup |-> IF now >= throttler_cleanup_interval THEN now ELSE 0,
     cached_resources |-> [cpu_percent |-> 95, memory_percent |-> 10],
     cache_time |-> now]

\* a new throttler; one where agent-1 was checked twice in second 0; and one
\* where agent-1 was checked at 0, 0, 241 and 271 and is paused until 311.  The
\* queue and the bus are not used.
InitThrottle ==
    /\ Start(EmptyQueue, 0)
    /\ BusStart(EmptyBus, 0)
    /\ levels = <<NoSample, NoSample>>
    /\ RateOff
    /\ \/ ThrottleStart(EmptyThrottler, 0, MaxThrottleSteps)
       \/ ThrottleStart(ThrottlerUnderLoad(0, 2, NoTime, 0), 0, MaxThrottleSteps)
       \/ ThrottleStart(ThrottlerUnderLoad(271, 4, 311, 0), 271, MaxThrottleSteps)

\* the calls whose state object is no longer the one in agent_states
Detach(calls, states) ==
    [a \in Agents |-> [calls[a] EXCEPT !.attached = @ /\ a \in DOMAIN states]]

CheckAndThrottle ==
    /\ thsteps > 0
    /\ \E agent \in Agents, jitter \in JitterInputs :
          /\ throttle_call[agent].pc = "idle"
          /\ LET e == check_and_throttle_enter(T, agent, tnow)
                 state == e.t.agent_states[agent]
                 r == check_and_throttle_resolve(state, e.t.cached_resources, tnow,
                                                 jitter)
             IN  IF e.done
                 THEN /\ SetT(e.t)
                      /\ throttle_call' = Detach(throttle_call, e.t.agent_states)
                      /\ thlast' = ThrottleCheck(agent, FALSE, ThrottleLevel.PAUSE,
                                                 state, state, e.ret, tnow)
                 ELSE IF CacheFresh(e.t, tnow)
                 THEN /\ SetT([e.t EXCEPT !.agent_states[agent] = r.state])
                      /\ throttle_call' = Detach(throttle_call, e.t.agent_states)
                      /\ thlast' = ThrottleCheck(agent, TRUE, r.level, state, r.state,
                                                 r.ret, tnow)
                 ELSE /\ SetT(e.t)
                      /\ throttle_call' =
                            [Detach(throttle_call, e.t.agent_states) EXCEPT ![agent] =
                                [pc |-> "sampling", state |-> state, started |-> tnow,
                                 attached |-> TRUE]]
                      /\ UNCHANGED thlast
    /\ thsteps' = thsteps - 1
    /\ UNCHANGED <<tnow, levels, qvars, busvars, ratevars, procvars>>

CheckAndThrottleResume ==
    /\ thsteps > 0
    /\ \E agent \in Agents, sample \in SampleInputs, jitter \in JitterInputs :
          /\ throttle_call[agent].pc = "sampling"
          /\ LET c == throttle_call[agent]
                 g == sample_resources(T, c.started, sample)
                 r == check_and_throttle_resolve(c.state, g.resources, tnow, jitter)
             IN  /\ SetT(IF c.attached
                         THEN [g.t EXCEPT !.agent_states[agent] = r.state]
                         ELSE g.t)
                 /\ throttle_call' = [throttle_call EXCEPT ![agent] = NoCall]
                 /\ thlast' = ThrottleCheck(agent, TRUE, r.level, c.state, r.state,
                                            r.ret, tnow)
    /\ thsteps' = thsteps - 1
    /\ UNCHANGED <<tnow, levels, qvars, busvars, ratevars, procvars>>

\* a worker starts (worker.py line 237)
ThrottlerRegister ==
    /\ thsteps > 0
    /\ \E agent \in Agents, base_delay \in BaseDelayInputs :
          /\ throttle_call[agent].pc = "idle"
          /\ SetT(throttler_register_agent(T, agent, base_delay, tnow))
    /\ thsteps' = thsteps - 1
    /\ UNCHANGED <<throttle_call, tnow, thlast, levels, qvars, busvars, ratevars, procvars>>

\* a worker is stopped (worker.py line 176), possibly while its loop waits
\* inside check_and_throttle
ThrottlerUnregister ==
    /\ thsteps > 0
    /\ \E agent \in Agents :
          LET t == throttler_unregister_agent(T, agent)
          IN  /\ SetT(t)
              /\ throttle_call' = Detach(throttle_call, t.agent_states)
    /\ thsteps' = thsteps - 1
    /\ UNCHANGED <<tnow, thlast, levels, qvars, busvars, ratevars, procvars>>

ThrottleTick ==
    /\ thsteps > 0
    /\ \E dt \in TickInputs : tnow' = tnow + dt
    /\ thsteps' = thsteps - 1
    /\ UNCHANGED <<agent_states, throttler_last_cleanup, cached_resources, cache_time,
                   throttle_call, thlast, levels, qvars, busvars, ratevars, procvars>>

(* calculate_throttle_level on its own: two samples, each given to the function *)

\* percentages on both sides of every threshold
Percentages == {0, 59, 60, 74, 75, 84, 85, 91, 92, 94, 95, 100}

ResourceInputs ==
    {[cpu_percent |-> c, memory_percent |-> m] : c \in Percentages, m \in Percentages}

InitLevels ==
    /\ Start(EmptyQueue, 0)
    /\ BusStart(EmptyBus, 0)
    /\ ThrottleStart(EmptyThrottler, 0, 0)
    /\ RateOff
    /\ \E s1 \in ResourceInputs, s2 \in ResourceInputs :
          levels = <<[resources |-> s1, level |-> NoLevel],
                     [resources |-> s2, level |-> NoLevel]>>

CalculateThrottleLevel ==
    /\ \E i \in DOMAIN levels :
          /\ levels[i].level = NoLevel
          /\ levels' = [levels EXCEPT
                           ![i].level = calculate_throttle_level(levels[i].resources)]
    /\ UNCHANGED <<agent_states, throttler_last_cleanup, cached_resources, cache_time,
                   throttle_call, tnow, thlast, thsteps, qvars, busvars, ratevars, procvars>>

NextLevels == CalculateThrottleLevel

NextThrottle ==
    \/ CheckAndThrottle
    \/ CheckAndThrottleResume
    \/ ThrottlerRegister
    \/ ThrottlerUnregister
    \/ ThrottleTick

----------------------------------------------------------------------------
(* The rate limiter driven by a worker's calls (worker.py) and a clock *)

\* the model names callers pass: one that matches two keys of
\* model_specific_limits, and one with a provider prefix and capital letters
ModelInputs ==
    {<<"g", "p", "t", "-", "4", "o", "-", "m", "i", "n", "i">>,
     <<"A", "n", "t", "h", "r", "o", "p", "i", "c", "/", "C", "l", "a", "u", "d", "e", "-", "3", "-", "O", "p", "u", "s">>}

\* worker.py estimates 2000 tokens for every request
EstimatedTokenInputs == {2000}

TokensUsedInputs == {500}

\* random.uniform(0.1, 0.5)
RateJitterInputs == {100000, 500000}

\* retry_after in seconds, or none
RetryAfterInputs == {NoRetryAfter, 0, 5}

\* seconds that pass between two calls
RateTickInputs == {30, 60, 600}

\* the limiter after 53 requests for the first model were recorded in second 0,
\* the last four of them failures
LimiterLoaded ==
    [model_state |->
        [m \in {<<"g", "p", "t", "-", "4", "o", "-", "m", "i", "n", "i">>} |->
            [requests_this_minute |-> 53, tokens_this_minute |-> 79500,
             minute_start |-> 0, last_request |-> 0, consecutive_errors |-> 4,
             current_delay |-> 16 * Micro, in_cooldown |-> FALSE,
             cooldown_until |-> NoTime]],
     last_cleanup |-> 0]

\* a new rate limiter, or the loaded one; queue, bus and throttler are not used
InitRate ==
    /\ Start(EmptyQueue, 0)
    /\ BusStart(EmptyBus, 0)
    /\ ThrottleStart(EmptyThrottler, 0, 0)
    /\ levels = <<NoSample, NoSample>>
    /\ \E rl \in {EmptyLimiter, LimiterLoaded} : RateStart(rl, 0, MaxRateSteps)
    /\ ProcsOff

Acquire ==
    /\ rsteps > 0
    /\ \E model \in ModelInputs, estimated_tokens \in EstimatedTokenInputs,
          jitter \in RateJitterInputs :
          \E r \in {acquire(R, model, estimated_tokens, rnow, jitter)} :
              /\ SetR(r.rl)
              /\ rlast' = RateCall("acquire", model, NoRetryAfter, 0, FALSE, r.found,
                                    r.ret, 0, rnow)
    /\ rsteps' = rsteps - 1
    /\ UNCHANGED <<rnow, qvars, busvars, thrvars, procvars>>

RecordRequest ==
    /\ rsteps > 0
    /\ \E model \in ModelInputs, tokens_used \in TokensUsedInputs, success \in BOOLEAN :
          \E r \in {record_request(R, model, tokens_used, success, rnow)} :
              /\ SetR(r.rl)
              /\ rlast' = RateCall("record_request", model, NoRetryAfter, tokens_used,
                                    success, r.found, RateResult(FALSE, 0, None), 0, rnow)
    /\ rsteps' = rsteps - 1
    /\ UNCHANGED <<rnow, qvars, busvars, thrvars, procvars>>

HandleRateLimitError ==
    /\ rsteps > 0
    /\ \E model \in ModelInputs, retry_after \in RetryAfterInputs :
          \E r \in {handle_rate_limit_error(R, model, retry_after, rnow)} :
              /\ SetR(r.rl)
              /\ rlast' = RateCall("handle_rate_limit_error", model, retry_after, 0,
                                    FALSE, r.found, RateResult(FALSE, 0, None),
                                    r.ret.cooldown_seconds, rnow)
    /\ rsteps' = rsteps - 1
    /\ UNCHANGED <<rnow, qvars, busvars, thrvars, procvars>>

RateTick ==
    /\ rsteps > 0
    /\ \E seconds \in RateTickInputs :
          /\ rnow + seconds * Micro <= MaxRateClock * Micro
          /\ rnow' = rnow + seconds * Micro
    /\ rsteps' = rsteps - 1
    /\ UNCHANGED <<model_state, limiter_last_cleanup, rlast, qvars, busvars, thrvars, procvars>>

NextRate ==
    \/ Acquire
    \/ RecordRequest
    \/ HandleRateLimitError
    \/ RateTick

----------------------------------------------------------------------------
(* AgentWorker._run_autonomous_loop *)

max_iterations == 50

\* the sleeps of the loop, in seconds: while paused, after an iteration, after
\* an error
pause_sleep == 1
iteration_sleep == 2
error_sleep == 3

\* estimated_tokens passed to acquire
estimated_tokens == 2000

\* str.startswith
startswith(s, prefix) ==
    Len(s) >= Len(prefix) /\ SubSeq(s, 1, Len(prefix)) = prefix

\* s.split()[0], "" for a string without a word
RECURSIVE UntilWhitespace(_)
UntilWhitespace(s) ==
    IF s = <<>> \/ Head(s) \in Whitespace THEN <<>>
    ELSE <<Head(s)>> \o UntilWhitespace(Tail(s))

FirstWord(s) == UntilWhitespace(lstrip(s))

RunPrefix == <<"R", "U", "N", " ">>

\* _is_tool_allowed_by_user
is_tool_allowed_by_user(wk, cmd) ==
    IF ~wk.allowed_tools_only \/ wk.requested_tools = {} THEN TRUE
    ELSE LET word == FirstWord(cmd)
             tool == IF startswith(word, RunPrefix)
                     THEN FirstWord(SubSeq(word, 5, Len(word)))
                     ELSE word
         IN  lower(tool) \in {lower(t) : t \in wk.requested_tools}

\* _extract_commands: raised tells that data.get raised AttributeError, which
\* the function does not catch
extract_commands(reply) ==
    IF reply.json = "value" THEN [raised |-> TRUE, commands |-> <<>>]
    ELSE IF reply.json = "object" /\ reply.numbered # <<>>
    THEN [raised |-> FALSE, commands |-> reply.numbered]
    ELSE [raised |-> FALSE,
          commands |-> [i \in DOMAIN reply.matches |-> RunPrefix \o strip(reply.matches[i])]]

\* the text of the AttributeError
AttributeErrorText == <<"'", "l", "i", "s", "t", "'", " ", "o", "b", "j", "e", "c", "t", " ", "h", "a", "s", " ", "n", "o", " ", "a", "t", "t", "r", "i", "b", "u", "t", "e", " ", "'", "g", "e", "t", "'">>

\* the texts generate raises: a 429 and a 401 of OpenRouter, and a 401 of the
\* OpenAI API whose body says "Unauthorized"
RateLimitedText == <<"R", "a", "t", "e", " ", "l", "i", "m", "i", "t", "e", "d", " ", "-", " ", "w", "a", "i", "t", " ", "b", "e", "f", "o", "r", "e", " ", "r", "e", "t", "r", "y", "i", "n", "g">>
InvalidKeyText == <<"I", "n", "v", "a", "l", "i", "d", " ", "A", "P", "I", " ", "k", "e", "y">>
UnauthorizedText == <<"O", "p", "e", "n", "A", "I", " ", "A", "P", "I", " ", "4", "0", "1", ":", " ", "U", "n", "a", "u", "t", "h", "o", "r", "i", "z", "e", "d">>

\* the texts that report an authentication failure
AuthenticationErrors == {InvalidKeyText, UnauthorizedText}

\* the loop as claim_next hands out items: claimed is what it handed out so far;
\* an item whose command does not start with "RUN " takes the `continue` of
\* line 440 straight back to claim_next
RECURSIVE claim_until_runnable(_, _, _)
claim_until_runnable(q, agent_id, claimed) ==
    The({IF ~r.found
         THEN [q |-> r.q, instruction |-> NoItem, claimed |-> claimed]
         ELSE IF startswith(r.ret.command, RunPrefix)
         THEN [q |-> r.q, instruction |-> r.ret, claimed |-> Append(claimed, r.ret)]
         ELSE claim_until_runnable(r.q, agent_id, Append(claimed, r.ret))
         : r \in {claim_next(q, agent_id)}})

\* what a part of the loop leaves: the worker, the queue, the items the worker
\* holds, the limiter, and the record of the step
Outcome(wk, q, h, rl, began, claimed, enqueued, reply, failure) ==
    [wk |-> wk, q |-> q, h |-> h, rl |-> rl, began |-> began, claimed |-> claimed,
     enqueued |-> enqueued, reply |-> reply, failure |-> failure]

\* lines 590-598, reached by a break or by the `while` test
after_loop(wk) == [wk EXCEPT !.status = "completed", !.pc = "closing"]

\* lines 420-449: claim_next and what follows it, up to the next await
claim_and_dispatch(wk, agent_id, q, h, rl) ==
    The({LET hh == [h EXCEPT ![agent_id] = @ \cup {c.claimed[i] : i \in DOMAIN c.claimed}]
         IN  IF c.instruction # NoItem
             THEN IF ~is_tool_allowed_by_user(wk, c.instruction.command)
                  THEN Outcome([wk EXCEPT !.pc = "loop"],
                               fail_instruction(c.q, c.instruction.id, agent_id,
                                                "not allowed").q,
                               Release(hh, agent_id, c.instruction.id), rl,
                               {"claim_next"}, c.claimed, <<>>, NoReply, FALSE)
                  ELSE Outcome([wk EXCEPT !.pc = "executing",
                                          !.instruction = c.instruction],
                               c.q, hh, rl, {"claim_next"}, c.claimed, <<>>, NoReply,
                               FALSE)
             ELSE IF wk.iteration + 1 >= max_iterations
             THEN Outcome([wk EXCEPT !.iteration = @ + 1, !.status = "completed",
                                     !.pc = "leaving"],
                          c.q, hh, rl, {"claim_next"}, c.claimed, <<>>, NoReply, FALSE)
             ELSE Outcome([wk EXCEPT !.iteration = @ + 1, !.status = "break",
                                     !.pc = "announce"],
                          c.q, hh, rl, {"claim_next"}, c.claimed, <<>>, NoReply, FALSE)
         : c \in {claim_until_runnable(q, agent_id, <<>>)}})

\* lines 413-418: the wait while paused, then the rest of the iteration
pause_or_claim(wk, agent_id, q, h, rl, now) ==
    IF wk.paused /\ ~wk.stopped
    THEN Outcome([wk EXCEPT !.pc = "paused", !.wake = now + pause_sleep * Micro],
                 q, h, rl, {"sleep"}, <<>>, <<>>, NoReply, FALSE)
    ELSE IF wk.stopped
    THEN Outcome(after_loop(wk), q, h, rl, {}, <<>>, <<>>, NoReply, FALSE)
    ELSE claim_and_dispatch(wk, agent_id, q, h, rl)

\* _check_execution_duration_expired
check_execution_duration_expired(wk, now) ==
    /\ wk.execution_duration # 0
    /\ now - wk.execution_start_time >= wk.execution_duration * 60 * Micro

\* lines 401-418: the `while` test and the duration check
loop_top(wk, agent_id, q, h, rl, now) ==
    IF wk.stopped \/ wk.iteration >= max_iterations
    THEN Outcome(after_loop(wk), q, h, rl, {}, <<>>, <<>>, NoReply, FALSE)
    ELSE IF check_execution_duration_expired(wk, now)
    THEN Outcome([wk EXCEPT !.status = "completed", !.pc = "leaving"],
                 q, h, rl, {}, <<>>, <<>>, NoReply, FALSE)
    ELSE pause_or_claim(wk, agent_id, q, h, rl, now)

\* lines 434-439: what follows _execute_single_command, which returned or raised
report_execution(wk, agent_id, q, h, rl, raised) ==
    The({Outcome([wk EXCEPT !.pc = "loop", !.instruction = NoItem], r.q,
                 IF r.ret THEN Release(h, agent_id, wk.instruction.id) ELSE h,
                 rl, {}, <<>>, <<>>, NoReply, FALSE)
         : r \in {IF raised
                  THEN fail_instruction(q, wk.instruction.id, agent_id, "boom")
                  ELSE complete_instruction(q, wk.instruction.id, agent_id,
                                            "completed")}})

\* lines 471-477: the request goes out
send_request(wk) == [wk EXCEPT !.pc = "generate", !.wake = NoTime]

\* lines 450-469: acquire and the sleep it asks for
admit(wk, q, h, rl, now, jitter) ==
    The({IF r.ret.wait_time > 0
         THEN Outcome([wk EXCEPT !.status = "break", !.pc = "rate_sleep",
                                 !.wake = now + r.ret.wait_time],
                      q, h, r.rl, {"acquire", "sleep"}, <<>>, <<>>, NoReply, FALSE)
         ELSE Outcome(send_request(wk), q, h, r.rl, {"acquire", "request"}, <<>>, <<>>,
                      NoReply, FALSE)
         : r \in {acquire(rl, wk.model_name, estimated_tokens, now, jitter)}})

\* lines 554-588: the handler of an exception whose text is error_str
on_exception(wk, q, h, rl, error_str, now, reply) ==
    IF Contains(<<"r", "a", "t", "e">>, lower(error_str)) \/ Contains(<<"4", "2", "9">>, error_str)
    THEN The({Outcome([wk EXCEPT !.pc = "cooldown_sleep", !.response = NoReply,
                                 !.wake = now + r.ret.cooldown_seconds],
                      q, h, r.rl, {"sleep"}, <<>>, <<>>, reply, FALSE)
              : r \in {handle_rate_limit_error(rl, wk.model_name, NoRetryAfter, now)}})
    ELSE The({IF Contains(<<"4", "0", "1">>, error_str) /\ Contains(<<"U", "n", "a", "u", "t", "h", "o", "r", "i", "z", "e", "d">>, error_str)
              THEN Outcome([wk EXCEPT !.status = "error", !.pc = "leaving",
                                      !.response = NoReply],
                           q, h, r.rl, {}, <<>>, <<>>, reply, TRUE)
              ELSE Outcome([wk EXCEPT !.pc = "error_sleep", !.response = NoReply,
                                      !.wake = now + error_sleep * Micro],
                           q, h, r.rl, {"sleep"}, <<>>, <<>>, reply, TRUE)
              : r \in {record_request(rl, wk.model_name, 0, FALSE, now)}})

\* lines 522-552: the commands of a reply without the end marker go to the queue
queue_commands(wk, q, h, rl, now) ==
    The({IF x.raised
         THEN on_exception(wk, q, h, rl, AttributeErrorText, now, wk.response)
         ELSE Outcome([wk EXCEPT !.pc = "end_sleep", !.response = NoReply,
                                 !.wake = now + iteration_sleep * Micro],
                      IF x.commands # <<>> THEN add_instructions(q, x.commands).q
                      ELSE q,
                      h, rl, {"sleep"}, <<>>, x.commands, wk.response, FALSE)
         : x \in {extract_commands(wk.response)}})

\* lines 482-552 without the test for the end marker
process_reply_unmarked(wk, q, h, rl, now, tokens_used) ==
    The({queue_commands(wk, q, h, r.rl, now)
         : r \in {record_request(rl, wk.model_name, tokens_used, TRUE, now)}})

\* lines 482-552: the reply is recorded, then the end marker is looked for
process_reply(wk, q, h, rl, now, tokens_used) ==
    The({IF wk.response.marker
         THEN Outcome([wk EXCEPT !.status = "completed", !.pc = "leaving",
                                 !.response = NoReply],
                      q, h, r.rl, {}, <<>>, <<>>, wk.response, FALSE)
         ELSE queue_commands(wk, q, h, r.rl, now)
         : r \in {record_request(rl, wk.model_name, tokens_used, TRUE, now)}})

----------------------------------------------------------------------------
(* The workers' loops, the calls from outside, and the clock *)

\* the model of every worker
WorkerModel == <<"g", "p", "t", "-", "4", "o", "-", "m", "i", "n", "i">>

RunNmap == <<"R", "U", "N", " ", "n", "m", "a", "p">>
RunCurl == <<"R", "U", "N", " ", "c", "u", "r", "l">>

\* a command that reaches the queue from the operator's console
ConsoleCmdInputs == {<<"l", "s">>}

\* the replies of the model: the end marker next to a command, an object with a
\* command, text that is not JSON, a JSON list, an object without commands
ReplyInputs ==
    {Reply(TRUE, "object", <<RunCurl>>, <<>>),
     Reply(FALSE, "object", <<RunNmap>>, <<>>),
     Reply(FALSE, "invalid", <<>>, <<>>),
     Reply(FALSE, "value", <<>>, <<>>),
     Reply(FALSE, "object", <<>>, <<>>)}

ErrorTextInputs == {RateLimitedText, InvalidKeyText, UnauthorizedText}

\* random.uniform(0.1, 0.5) in acquire
WorkerJitter == 100000

\* seconds that pass while nobody's sleep ends
WorkerTickInputs == {60}

\* the step budget of a behaviour whose steps are not counted
Unbounded == 0 - 1

Sleeping == {"paused", "rate_sleep", "end_sleep", "cooldown_sleep", "error_sleep"}

\* the step of worker agent_id that leaves outcome o
Moves(agent_id, step, o, seen, t) ==
    /\ wsteps # 0
    /\ wsteps' = IF wsteps = Unbounded THEN wsteps ELSE wsteps - 1
    /\ worker' = [worker EXCEPT ![agent_id] = o.wk]
    /\ wseen' = [wseen EXCEPT ![agent_id] = seen]
    /\ wlast' = WorkerStep(1 - wlast.n, agent_id, step, o.began, o.claimed, o.enqueued,
                           o.reply, o.failure)
    /\ SetQ(o.q)
    /\ held' = o.h
    /\ SetR(o.rl)
    /\ SetT(t)
    /\ wevents' = wevents
    /\ UNCHANGED <<last, run, cleared, steps, rnow, rlast, rsteps, throttle_call, tnow,
                   thlast, levels, thsteps, busvars, lockvars, snapvars, callvars>>

\* what o adds to what is remembered of the worker
Seen(agent_id, o) ==
    [wseen[agent_id] EXCEPT
       !.requests = IF "request" \in o.began THEN @ + 1 ELSE @,
       !.admitted = IF "claim_next" \in o.began THEN {}
                    ELSE @ \cup (o.began \cap {"acquire", "wait_for_resources"})]

\* the `while` test and the iteration up to its first await
LoopTop(agent_id) ==
    /\ worker[agent_id].pc = "loop"
    /\ \E o \in {loop_top(worker[agent_id], agent_id, Q, held, R, rnow)} :
          Moves(agent_id, "LoopTop", o, Seen(agent_id, o), T)

\* the sleep of the pause wait ends
PauseWake(agent_id) ==
    /\ worker[agent_id].pc = "paused"
    /\ rnow >= worker[agent_id].wake
    /\ \E o \in {pause_or_claim([worker[agent_id] EXCEPT !.wake = NoTime], agent_id, Q,
                                held, R, rnow)} :
          Moves(agent_id, "PauseWake", o, Seen(agent_id, o), T)

\* _execute_single_command returns or raises
Execute(agent_id) ==
    /\ worker[agent_id].pc = "executing"
    /\ \E raised \in BOOLEAN :
          \E o \in {report_execution(worker[agent_id], agent_id, Q, held, R, raised)} :
              Moves(agent_id, "Execute", o, Seen(agent_id, o), T)

\* the broadcast of _set_break_status returns
Admit(agent_id) ==
    /\ worker[agent_id].pc = "announce"
    /\ \E o \in {admit(worker[agent_id], Q, held, R, rnow, WorkerJitter)} :
          Moves(agent_id, "Admit", o, Seen(agent_id, o), T)

\* the sleep acquire asked for ends
RateWake(agent_id) ==
    /\ worker[agent_id].pc = "rate_sleep"
    /\ rnow >= worker[agent_id].wake
    /\ \E o \in {Outcome(send_request(worker[agent_id]), Q, held, R, {"request"}, <<>>,
                         <<>>, NoReply, FALSE)} :
          Moves(agent_id, "RateWake", o, Seen(agent_id, o), T)

\* generate returns a reply; _clear_break_status
GenerateReturns(agent_id) ==
    /\ worker[agent_id].pc = "generate"
    /\ \E reply \in ReplyInputs :
          \E o \in {Outcome([worker[agent_id] EXCEPT !.status = "running",
                                                     !.pc = "received",
                                                     !.response = reply],
                            Q, held, R, {}, <<>>, <<>>, NoReply, FALSE)} :
              Moves(agent_id, "GenerateReturns", o, Seen(agent_id, o), T)

\* generate raises
GenerateRaises(agent_id) ==
    /\ worker[agent_id].pc = "generate"
    /\ \E error_str \in ErrorTextInputs :
          \E o \in {on_exception(worker[agent_id], Q, held, R, error_str, rnow, NoReply)} :
              Moves(agent_id, "GenerateRaises", o,
                    [wseen[agent_id] EXCEPT
                       !.auth_failed = @ \/ error_str \in AuthenticationErrors], T)

\* the reply is recorded and read
ProcessReply(agent_id) ==
    /\ worker[agent_id].pc = "received"
    /\ \E tokens_used \in TokensUsedInputs :
          \E o \in {process_reply(worker[agent_id], Q, held, R, rnow, tokens_used)} :
              Moves(agent_id, "ProcessReply", o,
                    [wseen[agent_id] EXCEPT
                       !.ended = @ \/ worker[agent_id].response.marker], T)

\* a sleep at the end of an iteration ends: back to the `while` test
SleepWake(agent_id) ==
    /\ worker[agent_id].pc \in {"end_sleep", "cooldown_sleep", "error_sleep"}
    /\ rnow >= worker[agent_id].wake
    /\ \E o \in {Outcome([worker[agent_id] EXCEPT !.pc = "loop", !.wake = NoTime],
                         Q, held, R, {}, <<>>, <<>>, NoReply, FALSE)} :
          Moves(agent_id, "SleepWake", o, Seen(agent_id, o), T)

\* the broadcast before a break returns: the loop is left
Leave(agent_id) ==
    /\ worker[agent_id].pc = "leaving"
    /\ \E o \in {Outcome(after_loop(worker[agent_id]), Q, held, R, {}, <<>>, <<>>,
                         NoReply, FALSE)} :
          Moves(agent_id, "Leave", o, Seen(agent_id, o), T)

\* the last broadcast returns: _cleanup_on_complete
Close(agent_id) ==
    /\ worker[agent_id].pc = "closing"
    /\ \E o \in {Outcome([worker[agent_id] EXCEPT !.pc = "done"], Q, held, R, {}, <<>>,
                         <<>>, NoReply, FALSE)} :
          Moves(agent_id, "Close", o, Seen(agent_id, o),
                throttler_unregister_agent(T, agent_id))

\* a call from outside changes the worker's fields
Outside(agent_id, wk, seen) ==
    /\ wevents' = wevents - 1
    /\ worker' = [worker EXCEPT ![agent_id] = wk]
    /\ wseen' = [wseen EXCEPT ![agent_id] = seen]
    /\ UNCHANGED <<wlast, wsteps, qvars, busvars, thrvars, ratevars, lockvars, snapvars, callvars>>

\* stop()
Stop(agent_id) ==
    /\ wevents > 0
    /\ Outside(agent_id, [worker[agent_id] EXCEPT !.stopped = TRUE, !.status = "stopped"],
               [wseen[agent_id] EXCEPT !.stop_called = TRUE])

\* pause()
Pause(agent_id) ==
    /\ wevents > 0
    /\ Outside(agent_id, [worker[agent_id] EXCEPT !.paused = TRUE, !.status = "paused"],
               wseen[agent_id])

\* resume()
Resume(agent_id) ==
    /\ wevents > 0
    /\ Outside(agent_id, [worker[agent_id] EXCEPT !.paused = FALSE, !.status = "running"],
               wseen[agent_id])

\* the console's "/queue add"
ConsoleAdd ==
    /\ wevents > 0
    /\ wevents' = wevents - 1
    /\ \E cmd \in ConsoleCmdInputs : SetQ(add_instructions(Q, <<cmd>>).q)
    /\ UNCHANGED <<worker, wseen, wlast, wsteps, last, run, held, cleared, steps,
                   busvars, thrvars, ratevars, lockvars, snapvars, callvars>>

\* the earliest end of a sleep that is still ahead, NoTime if there is none
NextWake ==
    LET ahead == {worker[a].wake : a \in {b \in Agents : worker[b].pc \in Sleeping /\ worker[b].wake > rnow}}
    IN  IF ahead = {} THEN NoTime
        ELSE CHOOSE m \in ahead : \A x \in ahead : m <= x

\* time passes until the next sleep ends
Sleep ==
    /\ wsteps # 0
    /\ NextWake # NoTime
    /\ \A a \in Agents : worker[a].pc \in Sleeping => worker[a].wake > rnow
    /\ rnow' = NextWake
    /\ UNCHANGED <<model_state, limiter_last_cleanup, rlast, rsteps, workervars, qvars,
                   busvars, thrvars, lockvars, snapvars, callvars>>

\* time passes while no sleep ends
WorkerTick ==
    /\ wsteps # 0
    /\ \E s \in WorkerTickInputs :
          /\ rnow + s * Micro <= MaxWorkerClock * Micro
          /\ \A a \in Agents :
                worker[a].pc \in Sleeping => worker[a].wake > rnow + s * Micro
          /\ rnow' = rnow + s * Micro
    /\ UNCHANGED <<model_state, limiter_last_cleanup, rlast, rsteps, workervars, qvars,
                   busvars, thrvars, lockvars, snapvars, callvars>>

\* both workers registered with the throttler by _initialize_systems
ThrottlerOfWorkers ==
    throttler_register_agent(throttler_register_agent(EmptyThrottler, "agent-1", 1, 0),
                             "agent-2", 1, 0)

\* a worker as start() leaves it, and one late in its run
WorkerAt(iteration, allowed_tools_only, requested_tools, execution_duration) ==
    [NewWorker(WorkerModel, allowed_tools_only, requested_tools, execution_duration, 0)
        EXCEPT !.iteration = iteration]

\* the queue with one command of the model
QueueOfOne == add_instructions(EmptyQueue, <<RunNmap>>).q

\* two workers on one model at the start of their loops, the queue empty: the
\* first takes every tool and runs until it ends, the second is held to the
\* tools the user asked for and to one minute; or the first is one iteration
\* from the limit and the queue holds a command
InitWorker ==
    /\ BusStart(EmptyBus, 0)
    /\ ThrottleStart(ThrottlerOfWorkers, 0, 0)
    /\ levels = <<NoSample, NoSample>>
    /\ RateStart(EmptyLimiter, 0, 0)
    /\ LockOff
    /\ NoObservers
    /\ CallersIdle
    /\ \E iteration \in {0, max_iterations - 1} :
          /\ Start(IF iteration = 0 THEN EmptyQueue ELSE QueueOfOne, 0)
          /\ WorkersStart([a \in Agents |->
                             IF a = "agent-1" THEN WorkerAt(iteration, FALSE, {}, 0)
                             ELSE WorkerAt(0, TRUE, {<<"n", "m", "a", "p">>}, 1)],
                          MaxWorkerSteps, MaxWorkerEvents)

\* the queue holds a command of the model and both workers are two iterations
\* from the limit, with no duration budget; nobody calls from outside and the
\* steps are not counted
InitWorkerFair ==
    /\ BusStart(EmptyBus, 0)
    /\ ThrottleStart(ThrottlerOfWorkers, 0, 0)
    /\ levels = <<NoSample, NoSample>>
    /\ RateStart(EmptyLimiter, 0, 0)
    /\ LockOff
    /\ NoObservers
    /\ CallersIdle
    /\ Start(QueueOfOne, 0)
    /\ WorkersStart([a \in Agents |->
                       IF a = "agent-1" THEN WorkerAt(max_iterations - 2, FALSE, {}, 0)
                       ELSE WorkerAt(max_iterations - 2, TRUE, {<<"n", "m", "a", "p">>}, 0)],
                    Unbounded, 0)

\* the steps of one worker's coroutine
WorkerRun(agent_id) ==
    \/ LoopTop(agent_id)
    \/ Execute(agent_id)
    \/ Admit(agent_id)
    \/ RateWake(agent_id)
    \/ GenerateReturns(agent_id)
    \/ GenerateRaises(agent_id)
    \/ ProcessReply(agent_id)
    \/ SleepWake(agent_id)
    \/ Leave(agent_id)
    \/ Close(agent_id)

NextWorkerFair ==
    \/ \E agent_id \in Agents : WorkerRun(agent_id)
    \/ Sleep

NextWorker ==
    \/ \E agent_id \in Agents : LoopTop(agent_id)
    \/ \E agent_id \in Agents : PauseWake(agent_id)
    \/ \E agent_id \in Agents : Execute(agent_id)
    \/ \E agent_id \in Agents : Admit(agent_id)
    \/ \E agent_id \in Agents : RateWake(agent_id)
    \/ \E agent_id \in Agents : GenerateReturns(agent_id)
    \/ \E agent_id \in Agents : GenerateRaises(agent_id)
    \/ \E agent_id \in Agents : ProcessReply(agent_id)
    \/ \E agent_id \in Agents : SleepWake(agent_id)
    \/ \E agent_id \in Agents : Leave(agent_id)
    \/ \E agent_id \in Agents : Close(agent_id)
    \/ \E agent_id \in Agents : Stop(agent_id)
    \/ \E agent_id \in Agents : Pause(agent_id)
    \/ \E agent_id \in Agents : Resume(agent_id)
    \/ ConsoleAdd
    \/ Sleep
    \/ WorkerTick

----------------------------------------------------------------------------
(* The bus lock and the push handlers *)

\* _determine_specializations
determine_specializations(category) ==
    IF category = "domain" THEN {"network_recon", "osint", "subdomain_enum"}
    ELSE IF category = "ip" THEN {"network_recon", "port_scanning", "service_enum"}
    ELSE IF category = "url" THEN {"web_scanning", "vuln_scanning", "directory_enum"}
    ELSE IF category = "file" THEN {"static_analysis", "code_review"}
    ELSE {"general"}

\* the category of every worker
WorkerCategory == "domain"

\* _handle_agent_message, the test of the request_help branch: whether the
\* handler calls offer_help
answers_with_offer(message, status) ==
    /\ message.message_type = "request_help"
    /\ message.content.specializations \cap determine_specializations(WorkerCategory) # {}
    /\ status \in {"running", "idle"}

\* the agent whose push handler send_message awaits for the message it
\* appended, None if it awaits none; with two agents a broadcast has one
\* recipient at most
handler_called(b, handlers, message) ==
    LET to == IF message.to_agent # None
              THEN {a \in {message.to_agent} : a \in DOMAIN b.message_queue}
              ELSE {a \in DOMAIN b.message_queue :
                      a # message.from_agent /\ Subscribed(b, a, message.message_type)}
    IN  IF to \cap handlers = {} THEN None ELSE CHOOSE a \in to \cap handlers : TRUE

\* the specializations a request_help asks for
RequirementInputs == {{}, {"osint"}, {"code_review"}}

\* the messages of request_help, offer_help and share_finding
LockMessageInputs(agent) ==
    {AgentMessage(agent, None, "request_help", [specializations |-> r]) :
        r \in RequirementInputs}
    \cup {AgentMessage(agent, to, "offer_help", [helper_agent |-> agent]) :
            to \in Agents \ {agent}}
    \cup {AgentMessage(agent, None, "finding", [severity |-> "High"])}

\* a coroutine calls send_message and reaches `async with self._lock`
BusCall(agent) ==
    /\ lsteps > 0
    /\ bus_task[agent].pc = "idle"
    /\ \E message \in LockMessageInputs(agent) :
          bus_task' = [bus_task EXCEPT ![agent] = [NoBusTask EXCEPT !.pc = "waiting",
                                                                   !.message = message]]
    /\ lsteps' = lsteps - 1
    /\ UNCHANGED <<bus_lock, message_handlers, busvars, qvars, thrvars, ratevars,
                   workervars, snapvars, callvars>>

\* the lock is free: send_message takes it, appends the message and awaits the
\* recipient's handler with the lock held, or returns; the send_message that a
\* handler called appends the offer and returns to the handler
LockAcquire(agent) ==
    /\ bus_task[agent].pc \in {"waiting", "handler_waiting"}
    /\ bus_lock = None
    /\ IF bus_task[agent].pc = "waiting"
       THEN \E r \in {send_message(B, bus_task[agent].message)},
               h \in {handler_called(B, message_handlers, bus_task[agent].message)} :
               /\ SetB(r.b)
               /\ IF h = None
                  THEN /\ bus_lock' = None
                       /\ bus_task' = [bus_task EXCEPT ![agent] = NoBusTask]
                  ELSE /\ bus_lock' = agent
                       /\ bus_task' = [bus_task EXCEPT ![agent].pc = "in_handler",
                                                       ![agent].handler = h]
       ELSE \E r \in {send_message(B, AgentMessage(bus_task[agent].handler,
                                                  bus_task[agent].message.from_agent,
                                                  "offer_help",
                                                  [helper_agent |-> bus_task[agent].handler]))} :
               /\ SetB(r.b)
               /\ bus_lock' = None
               /\ bus_task' = [bus_task EXCEPT ![agent].pc = "in_handler",
                                               ![agent].answered = TRUE]
    /\ UNCHANGED <<message_handlers, lsteps, bus_call, tlast, finished_tasks,
                   completion_order, dlast, first_share, sent, bsteps, qvars, thrvars,
                   ratevars, workervars, snapvars, callvars>>
    /\ UNCHANGED grants

\* the handler send_message awaits runs: it calls offer_help, whose
\* send_message reaches `async with self._lock`, or it returns and send_message
\* returns, which releases the lock
HandlerRuns(agent) ==
    /\ bus_task[agent].pc = "in_handler"
    /\ IF /\ ~bus_task[agent].answered
          /\ answers_with_offer(bus_task[agent].message,
                                worker[bus_task[agent].handler].status)
       THEN /\ bus_task' = [bus_task EXCEPT ![agent].pc = "handler_waiting"]
            /\ bus_lock' = bus_lock
       ELSE /\ bus_task' = [bus_task EXCEPT ![agent] = NoBusTask]
            /\ bus_lock' = IF bus_lock = agent THEN None ELSE bus_lock
    /\ UNCHANGED <<message_handlers, lsteps, busvars, qvars, thrvars, ratevars,
                   workervars, snapvars, callvars>>

\* both agents registered with the bus, the handlers of the workers set for
\* both or for the second only
InitLock ==
    /\ Start(EmptyQueue, 0)
    /\ BusStart(BusPreload(0), 0)
    /\ ThrottleStart(EmptyThrottler, 0, 0)
    /\ levels = <<NoSample, NoSample>>
    /\ RateStart(EmptyLimiter, 0, 0)
    /\ WorkersOff
    /\ NoObservers
    /\ CallersIdle
    /\ \E handlers \in {Agents, {"agent-2"}} : LockStart(handlers, MaxLockCalls)

NextLock ==
    \/ \E agent \in Agents : BusCall(agent)
    \/ \E agent \in Agents : LockAcquire(agent)
    \/ \E agent \in Agents : HandlerRuns(agent)

----------------------------------------------------------------------------
(* The request cycle of _run_autonomous_loop as the rate limiter sees it:
   acquire, sleep wait_time, the model request, then record_request on a reply,
   handle_rate_limit_error and a sleep of the cooldown on a rate limit error,
   record_request(success=False) and a sleep on any other error.  The workers
   share one RateLimiter and here one model.  A call takes no time; the clock
   moves when every worker that takes part sleeps. *)

SharedModel == <<"c", "l", "a", "u", "d", "e", "-", "3", "-", "o", "p", "u", "s">>

\* the limiter after n requests for the shared model were answered in the
\* window that began in second 0, the last of them now
LimiterWarm(n, now) ==
    [model_state |->
        [m \in {SharedModel} |->
            [NewModelState(SharedModel, 0) EXCEPT
                !.requests_this_minute = n,
                !.tokens_this_minute = n * 500,
                !.last_request = now]],
     last_cleanup |-> 0]

\* one worker on a new limiter, or three workers 54 seconds into a window in
\* which they made 26 requests
InitBudget ==
    /\ Start(EmptyQueue, 0)
    /\ BusStart(EmptyBus, 0)
    /\ ThrottleStart(EmptyThrottler, 0, 0)
    /\ levels = <<NoSample, NoSample>>
    /\ WorkersOff /\ LockOff /\ NoObservers
    /\ \/ users = {"worker-1"} /\ RateStart(EmptyLimiter, 0, 0)
       \/ users = Callers /\ RateStart(LimiterWarm(26, 54 * Micro), 54 * Micro, 0)
    /\ caller = [c \in Callers |-> IdleCaller]
    /\ streak = [c \in Callers |-> NoStreak]

BudgetFrame == UNCHANGED <<rnow, rsteps, users, qvars, busvars, thrvars, workervars,
                           lockvars, snapvars>>

\* worker.py 455-468: acquire, then the sleep begins
CallerAcquire(c) ==
    /\ caller[c].pc = "idle"
    /\ rnow >= caller[c].wake
    /\ \E jitter \in RateJitterInputs :
          \E r \in {acquire(R, SharedModel, estimated_tokens, rnow, jitter)} :
              /\ SetR(r.rl)
              /\ rlast' = RateCall("acquire", SharedModel, NoRetryAfter, 0, FALSE,
                                    r.found, r.ret, 0, rnow)
              /\ caller' = [caller EXCEPT ![c] =
                              [pc |-> "sleep",
                               wake |-> IF r.ret.wait_time > 0
                                        THEN rnow + r.ret.wait_time ELSE rnow]]
    /\ UNCHANGED streak
    /\ BudgetFrame

\* worker.py 470-486, 554: the request is answered and recorded
CallerReply(c) ==
    /\ caller[c].pc = "sleep"
    /\ rnow >= caller[c].wake
    /\ \E r \in {record_request(R, SharedModel, 500, TRUE, rnow)} :
          /\ SetR(r.rl)
          /\ rlast' = RateCall("record_request", SharedModel, NoRetryAfter, 500, TRUE,
                                r.found, RateResult(FALSE, 0, None), 0, rnow)
    /\ caller' = [caller EXCEPT ![c] =
                    [pc |-> "idle", wake |-> rnow + iteration_sleep * Micro]]
    /\ streak' = [streak EXCEPT ![c] = NoStreak]
    /\ BudgetFrame

\* worker.py 560-568: the request fails with a rate limit error
CallerRateLimited(c) ==
    /\ caller[c].pc = "sleep"
    /\ rnow >= caller[c].wake
    /\ \E r \in {handle_rate_limit_error(R, SharedModel, NoRetryAfter, rnow)} :
          /\ SetR(r.rl)
          /\ rlast' = RateCall("handle_rate_limit_error", SharedModel, NoRetryAfter, 0,
                                FALSE, r.found, RateResult(FALSE, 0, None),
                                r.ret.cooldown_seconds, rnow)
          /\ caller' = [caller EXCEPT ![c] =
                          [pc |-> "idle", wake |-> rnow + r.ret.cooldown_seconds]]
          /\ streak' = [streak EXCEPT ![c] =
                          [k |-> @.k + 1, cooldown |-> r.ret.cooldown_seconds,
                           base |-> IF @.k = 0 THEN r.found.consecutive_errors
                                    ELSE @.base]]
    /\ BudgetFrame

\* worker.py 570-590: the request fails with another error
CallerFailed(c) ==
    /\ caller[c].pc = "sleep"
    /\ rnow >= caller[c].wake
    /\ \E r \in {record_request(R, SharedModel, 0, FALSE, rnow)} :
          /\ SetR(r.rl)
          /\ rlast' = RateCall("record_request", SharedModel, NoRetryAfter, 0, FALSE,
                                r.found, RateResult(FALSE, 0, None), 0, rnow)
    /\ caller' = [caller EXCEPT ![c] =
                    [pc |-> "idle", wake |-> rnow + error_sleep * Micro]]
    /\ streak' = [streak EXCEPT ![c] = NoStreak]
    /\ BudgetFrame

\* the end of the sleep that ends first
FirstWake ==
    LET wakes == {caller[c].wake : c \in users}
    IN  CHOOSE w \in wakes : \A v \in wakes : w <= v

\* every worker sleeps: the clock reaches the end of the first sleep to end
CallersSleep ==
    /\ users # {}
    /\ \A c \in users : caller[c].wake > rnow
    /\ FirstWake <= MaxBudgetClock * Micro
    /\ rnow' = FirstWake
    /\ UNCHANGED <<model_state, limiter_last_cleanup, rlast, rsteps, caller, streak,
                   users, qvars, busvars, thrvars, workervars, lockvars, snapvars>>

NextBudget ==
    \/ \E c \in users : CallerAcquire(c)
    \/ \E c \in users : CallerReply(c)
    \/ \E c \in users : CallerRateLimited(c)
    \/ \E c \in users : CallerFailed(c)
    \/ CallersSleep

Spec == Init /\ [][Next]_vars

SpecFull == InitFull /\ [][Next]_vars

SpecListeners == InitListeners /\ [][NextListeners]_vars

SpecTasks == InitTasks /\ [][NextTasks]_vars

SpecBus == InitBus /\ [][NextBus]_vars

SpecAck == InitAck /\ [][NextAck]_vars

SpecBudget == InitBudget /\ [][NextBudget]_vars

SpecThrottle == InitThrottle /\ [][NextThrottle]_vars

SpecLevels == InitLevels /\ [][NextLevels]_vars

SpecRate == InitRate /\ [][NextRate]_vars

SpecWorker == InitWorker /\ [][NextWorker]_vars

\* the event loop runs every coroutine that can run, every awaited call returns
\* or raises, and time passes
SpecWorkerFair ==
    /\ InitWorkerFair
    /\ [][NextWorkerFair]_vars
    /\ \A agent_id \in Agents : WF_vars(WorkerRun(agent_id))
    /\ WF_vars(Sleep)

\* the event loop runs every coroutine that can run
SpecLock ==
    /\ InitLock
    /\ [][NextLock]_vars
    /\ \A agent \in Agents : WF_vars(LockAcquire(agent))
    /\ \A agent \in Agents : WF_vars(HandlerRuns(agent))

----------------------------------------------------------------------------
(* Properties of the shared instruction queue *)

HeldIds(a) == {c.id : c \in held[a]}

InList(ins, id) == \E i \in DOMAIN ins : ins[i].id = id

\* the element of ins with this id (ids are unique in the list)
ItemOf(ins, id) == ins[CHOOSE i \in DOMAIN ins : ins[i].id = id]

IdsOf(ins) == {ins[i].id : i \in DOMAIN ins}

QueueUnchanged ==
    UNCHANGED <<instructions, instruction_counter, executed_instructions>>

\* C1 (exclusive claim): in a run of consecutive claim_next calls on a queue that
\* held run.n pending items, the first run.n calls return an item and every
\* further call returns nothing, the returned ids are pairwise distinct, and no
\* id is held (executing) by two different agents at once; an executing item of
\* the list is held by the agent the list names as its claimant.
ExclusiveClaim ==
    /\ \A i \in DOMAIN run.rets : (run.rets[i] # 0) <=> (i <= run.n)
    /\ \A i, j \in DOMAIN run.rets :
          (i # j /\ run.rets[i] # 0) => run.rets[i] # run.rets[j]
    /\ \A a, b \in Agents : a # b => HeldIds(a) \cap HeldIds(b) = {}
    /\ \A i \in DOMAIN instructions :
          IsExecuting(instructions[i]) =>
              /\ instructions[i].claimed_by \in Agents
              /\ instructions[i].id \in HeldIds(instructions[i].claimed_by)

\* three calls on two pending items: two agents got one each, the third call
\* got nothing
ExclusiveClaimWitness ==
    /\ run.n = 2
    /\ Len(run.rets) = 3
    /\ run.rets[3] = 0
    /\ \A a \in Agents : held[a] # {}

\* C2 (claim-ownership guard): complete_instruction / fail_instruction by an
\* agent that does not hold the id (it never claimed it, it reported it back
\* already, another agent re-claimed it, or the id is unknown) returns false and
\* changes neither the active list, the history nor the counter.
OwnershipGuard ==
    [][ ( /\ last'.op \in {"complete_instruction", "fail_instruction"}
          /\ last'.id \notin HeldIds(last'.agent) )
        => (last'.ok = FALSE /\ QueueUnchanged) ]_vars

\* an agent that failed an item tries to complete it after another agent has
\* re-claimed it
OwnershipGuardWitness ==
    /\ last.op = "complete_instruction"
    /\ last.ok = FALSE
    /\ InList(instructions, last.id)
    /\ ItemOf(instructions, last.id).error # None
    /\ ItemOf(instructions, last.id).claimed_by \in Agents \ {last.agent}

\* C3 (FIFO claim order): a claim_next that returns an item returns the pending
\* item with the smallest id, which is also the first pending item in list
\* order; a failed item is therefore claimed again before younger items.
FifoClaim ==
    [][ (last'.op = "claim_next" /\ last'.ok) =>
          /\ InList(instructions, last'.id)
          /\ IsPending(ItemOf(instructions, last'.id))
          /\ \A i \in DOMAIN instructions :
                IsPending(instructions[i]) =>
                    /\ last'.id <= instructions[i].id
                    /\ (instructions[i].id = last'.id
                          => \A j \in 1..(i - 1) : ~IsPending(instructions[j])) ]_vars

\* an item that failed before is claimed again while a younger item is pending
FifoClaimWitness ==
    /\ last.op = "claim_next"
    /\ last.ok
    /\ last.item.error # None
    /\ \E i \in DOMAIN instructions :
          IsPending(instructions[i]) /\ instructions[i].id > last.id

\* C4 (fail re-queues): after a successful fail_instruction the item is still
\* in the list at its old position, pending, unclaimed, with the error recorded,
\* and claim_next by any agent returns it when no older item is pending; a
\* complete or fail of a pending item returns false.
FailRequeues ==
    [][ /\ (last'.op = "fail_instruction" /\ last'.ok) =>
              /\ last'.id \in HeldIds(last'.agent)
              /\ IdsOf(instructions') = IdsOf(instructions)
              /\ Len(instructions') = Len(instructions)
              /\ \A i \in DOMAIN instructions :
                    IF instructions[i].id = last'.id
                    THEN /\ IsExecuting(instructions[i])
                         /\ instructions'[i] =
                               [instructions[i] EXCEPT !.status = "pending",
                                                       !.claimed_by = None,
                                                       !.started_at = None,
                                                       !.error = last'.arg]
                         /\ (\A j \in 1..(i - 1) : ~IsPending(instructions'[j]))
                               => \A a \in Agents :
                                     /\ claim_next(Q', a).found
                                     /\ claim_next(Q', a).ret.id = last'.id
                    ELSE instructions'[i] = instructions[i]
        /\ ( /\ last'.op \in {"complete_instruction", "fail_instruction"}
             /\ InList(instructions, last'.id)
             /\ IsPending(ItemOf(instructions, last'.id)) )
           => (last'.ok = FALSE /\ QueueUnchanged) ]_vars

\* an item failed by one agent has been claimed again by the other
FailRequeuesWitness ==
    /\ last.op = "claim_next"
    /\ last.ok
    /\ last.item.error \in ErrorInputs
    /\ \E a \in Agents \ {last.agent} : last.id \notin HeldIds(a)
    /\ last.id \in HeldIds(last.agent)

\* C5 (complete): complete_instruction returns true only for an item that is
\* executing and claimed by the caller; the item then leaves the active list and
\* is the newest entry of the history, which keeps its newest
\* max_executed_history entries; completing an id that is in the history
\* returns false.
CompleteMovesToHistory ==
    /\ [](Len(executed_instructions) <= max_executed_history)
    /\ [][ /\ (last'.op = "complete_instruction" /\ last'.ok) =>
                /\ InList(instructions, last'.id)
                /\ IsExecuting(ItemOf(instructions, last'.id))
                /\ ItemOf(instructions, last'.id).claimed_by = last'.agent
                /\ ~InList(instructions', last'.id)
                /\ Len(instructions') = Len(instructions) - 1
                /\ LET done == [ItemOf(instructions, last'.id) EXCEPT
                                   !.status = "completed", !.completed_at = "ts",
                                   !.result = last'.arg]
                       all == Append(executed_instructions, done)
                       n == Len(all)
                   IN  executed_instructions' =
                          IF n > max_executed_history
                          THEN SubSeq(all, n - max_executed_history + 1, n)
                          ELSE all
           /\ (last'.op = "complete_instruction" /\ ~last'.ok) => QueueUnchanged
           /\ ( /\ last'.op = "complete_instruction"
                /\ InList(executed_instructions, last'.id) )
              => last'.ok = FALSE ]_vars

\* a completion into a full history: the oldest entry is gone, the new one is last
CompleteMovesToHistoryWitness ==
    /\ last.op = "complete_instruction"
    /\ last.ok
    /\ Len(executed_instructions) = max_executed_history
    /\ executed_instructions[1].id > 1
    /\ executed_instructions[Len(executed_instructions)].id = last.id

\* C6 (bounded pending): after add_instructions at most max_instructions items
\* are pending; what it dropped was pending and older than every pending item
\* left, no more was dropped than needed, and every executing item is still in
\* the list, unchanged; claim_next never raises the number of pending items.
BoundedPending ==
    [][ /\ last'.op = "add_instructions" =>
              LET before == Len(Pending(instructions))
                  dropped == {i \in DOMAIN instructions :
                                 ~InList(instructions', instructions[i].id)}
              IN  /\ Len(Pending(instructions')) <= max_instructions
                  /\ Len(Pending(instructions')) =
                        IF before + last'.n > max_instructions
                        THEN max_instructions ELSE before + last'.n
                  /\ \A i \in dropped :
                        /\ IsPending(instructions[i])
                        /\ \A j \in DOMAIN instructions' :
                              IsPending(instructions'[j])
                                 => instructions[i].id < instructions'[j].id
                  /\ Executing(instructions') = Executing(instructions)
        /\ last'.op = "claim_next" =>
              Len(Pending(instructions')) <= Len(Pending(instructions)) ]_vars

\* add_instructions on a full queue whose head is executing: the head is kept,
\* an older pending item was dropped
BoundedPendingWitness ==
    /\ last.op = "add_instructions"
    /\ last.n > 0
    /\ Len(Pending(instructions)) = max_instructions
    /\ Len(instructions) > max_instructions
    /\ IsExecuting(instructions[1])
    /\ instructions[2].id > instructions[1].id + 1

\* C7 (clear keeps in-flight work): clear_queue leaves exactly the executing
\* items, unchanged and in order, and changes neither the history nor the
\* counter; an item that was executing when clear_queue ran and is still in the
\* list can afterwards be completed or failed by the agent that holds it.
ClearKeepsExecuting ==
    [][ /\ last'.op = "clear_queue" =>
              /\ instructions' = Executing(instructions)
              /\ \A i \in DOMAIN instructions :
                    IsExecuting(instructions[i]) =>
                        \E j \in DOMAIN instructions' : instructions'[j] = instructions[i]
              /\ UNCHANGED <<executed_instructions, instruction_counter>>
        /\ ( /\ last'.op \in {"complete_instruction", "fail_instruction"}
             /\ last'.id \in cleared
             /\ last'.id \in HeldIds(last'.agent)
             /\ InList(instructions, last'.id) )
           => last'.ok ]_vars

\* an item that survived a clear_queue has been completed by its claimant
ClearKeepsExecutingWitness ==
    /\ last.op = "complete_instruction"
    /\ last.ok
    /\ last.id \in cleared
    /\ instruction_counter > last.id

\* C8 (edit only while pending): edit_instruction returns true exactly when the
\* id is in the list and pending, and then changes only that item's command;
\* otherwise it changes nothing; the command of an executing item in the list
\* is the command in the copy its claimant got from claim_next.
EditOnlyPending ==
    /\ [](\A i \in DOMAIN instructions :
            IsExecuting(instructions[i]) =>
                \E c \in held[instructions[i].claimed_by] :
                    c.id = instructions[i].id /\ c.command = instructions[i].command)
    /\ [][ last'.op = "edit_instruction" =>
             /\ last'.ok <=> ( /\ InList(instructions, last'.id)
                               /\ IsPending(ItemOf(instructions, last'.id)) )
             /\ UNCHANGED <<executed_instructions, instruction_counter>>
             /\ Len(instructions') = Len(instructions)
             /\ \A i \in DOMAIN instructions :
                   instructions'[i] =
                      IF last'.ok /\ instructions[i].id = last'.id
                      THEN [instructions[i] EXCEPT !.command = strip(last'.arg)]
                      ELSE instructions[i] ]_vars

\* an edit of an executing item was refused
EditOnlyPendingWitness ==
    /\ last.op = "edit_instruction"
    /\ last.ok = FALSE
    /\ InList(instructions, last.id)
    /\ IsExecuting(ItemOf(instructions, last.id))
    /\ strip(last.arg) # ItemOf(instructions, last.id).command

----------------------------------------------------------------------------
(* Properties of the task claims of the bus *)

\* C9 (task dedup): claim_task on an identifier that is not in progress and was
\* never completed returns true; on an identifier that is in progress it returns
\* false; on an identifier complete_task was called for it returns false.
TaskDedup ==
    tlast.op = "claim_task" =>
        /\ (tlast.was = None /\ ~tlast.finished) => tlast.ret
        /\ tlast.was # None => ~tlast.ret
        /\ tlast.finished => ~tlast.ret

\* C10 (in progress or completed, never both): no task identifier is in the
\* in-progress map and in the completed set at once.
InProgressXorCompleted ==
    DOMAIN in_progress_tasks \cap completed_tasks = {}

\* complete_task by an agent that is not the claimant, on an identifier that
\* another agent has in progress
InProgressXorCompletedWitness ==
    /\ tlast.op = "complete_task"
    /\ tlast.was \in Agents \ {tlast.agent}
    /\ tlast.task \in completed_tasks
    /\ in_progress_tasks # <<>>

----------------------------------------------------------------------------
(* Properties of the discovery ledger and the mailboxes of the bus *)

HoldsPair(ledger, discovery_type, key) ==
    \E i \in DOMAIN ledger : ledger[i].type = discovery_type /\ ledger[i].key = key

\* C11 as claimed (idempotent discovery): of the share_discovery calls made with
\* one (type, key), the first returns true, every later one returns false, and
\* the ledger then holds the entry for that key with the first call's agent id
\* and data.
IdempotentDiscovery ==
    dlast.op = "share_discovery" =>
        LET dk == discovery_key(dlast.type, dlast.key)
            pair == <<dlast.type, dlast.key>>
        IN  IF dlast.first
            THEN dlast.ret
            ELSE /\ ~dlast.ret
                 /\ dk \in LedgerKeys(shared_discoveries)
                 /\ LedgerEntry(shared_discoveries, dk).agent_id = first_share[pair].agent
                 /\ LedgerEntry(shared_discoveries, dk).data = first_share[pair].data

\* C11 as amended (first writer wins while its entry is held): a share_discovery
\* call that finds the ledger holding an entry stored for the same (type, key)
\* returns false and leaves the ledger, and so that entry's agent id and data, as
\* they were; a call that finds no entry under the string "type:key" returns true
\* and stores its own agent id and data under it.
FirstWriterWins ==
    [][ShareDiscovery =>
          LET c == dlast'
              dk == discovery_key(c.type, c.key)
          IN  /\ HoldsPair(shared_discoveries, c.type, c.key) =>
                    /\ ~c.ret
                    /\ shared_discoveries' = shared_discoveries
              /\ dk \notin LedgerKeys(shared_discoveries) =>
                    /\ c.ret
                    /\ dk \in LedgerKeys(shared_discoveries')
                    /\ LedgerEntry(shared_discoveries', dk) =
                          Discovery(c.agent, c.type, c.key, c.data)]_vars

\* a second call for a (type, key), by the other agent and with other data, was
\* turned down and the entry of the first call is in the ledger
FirstWriterWinsWitness ==
    /\ dlast.op = "share_discovery"
    /\ ~dlast.first
    /\ ~dlast.ret
    /\ HoldsPair(shared_discoveries, dlast.type, dlast.key)
    /\ LET e == LedgerEntry(shared_discoveries, discovery_key(dlast.type, dlast.key))
       IN  /\ e.agent_id # dlast.agent
           /\ e.data # dlast.data
           /\ e.agent_id = first_share[<<dlast.type, dlast.key>>].agent
           /\ e.data = first_share[<<dlast.type, dlast.key>>].data

\* the mailbox of agent a got the message as its newest entry, at most the
\* oldest entry making room for it
Appended(a, m) ==
    LET full == Append(message_queue[a], m)
    IN  message_queue'[a] \in {full, Tail(full)}

Untouched(a) == message_queue'[a] = message_queue[a]

Range(seq) == {seq[i] : i \in DOMAIN seq}

\* C13 (bounded bus memory): every mailbox holds at most 20 messages, the ledger
\* at most 100 entries and the completed set at most 50 identifiers, and an entry
\* that a step evicts from one of these stores is the oldest inserted of that
\* store: every other entry stays, and so does the entry the step inserts.
BoundedBusMemory ==
    /\ [](/\ \A a \in DOMAIN message_queue :
                Len(message_queue[a]) <= max_messages_per_agent
          /\ Len(shared_discoveries) <= max_discoveries
          /\ Cardinality(completed_tasks) <= max_completed_tasks)
    /\ [][/\ \A a \in DOMAIN message_queue \cap DOMAIN message_queue' :
                \A i \in 2..Len(message_queue[a]) :
                    message_queue[a][i] \in Range(message_queue'[a])
          /\ \A i \in 2..Len(shared_discoveries) :
                shared_discoveries[i] \in Range(shared_discoveries')
          /\ \A i \in 2..Len(completion_order) :
                completion_order[i] \in completed_tasks'
          /\ CompleteTask => tlast'.task \in completed_tasks']_vars

----------------------------------------------------------------------------
(* Properties of the throttler *)

\* the band a percentage falls in: the number of cutoffs it has reached
Band(percent, cutoffs) == Cardinality({c \in cutoffs : percent >= c})

CpuCutoffs ==
    {ResourceThresholds.cpu_light, ResourceThresholds.cpu_moderate,
     ResourceThresholds.cpu_heavy, ResourceThresholds.cpu_pause}

MemoryCutoffs ==
    {ResourceThresholds.memory_light, ResourceThresholds.memory_moderate,
     ResourceThresholds.memory_heavy, ResourceThresholds.memory_pause}

\* C14 (throttle monotonicity): the level computed for a sample is the larger of
\* its CPU band and its memory band, and of two samples of which the second has
\* at least the CPU and at least the memory percentage of the first, the second
\* gets at least the level of the first (None < Light < Moderate < Heavy < Pause).
ThrottleMonotone ==
    /\ \A i \in DOMAIN levels :
          levels[i].level # NoLevel =>
              levels[i].level = Max(Band(levels[i].resources.cpu_percent, CpuCutoffs),
                                    Band(levels[i].resources.memory_percent,
                                         MemoryCutoffs))
    /\ (/\ levels[1].level # NoLevel
        /\ levels[2].level # NoLevel
        /\ levels[2].resources.cpu_percent >= levels[1].resources.cpu_percent
        /\ levels[2].resources.memory_percent >= levels[1].resources.memory_percent)
       => levels[2].level >= levels[1].level

\* both levels are computed; the first sample is at Pause by its CPU alone, the
\* second has the same CPU and its memory in the Heavy band
ThrottleMonotoneWitness ==
    /\ levels[1].level = ThrottleLevel.PAUSE
    /\ levels[2].level = ThrottleLevel.PAUSE
    /\ levels[1].resources.cpu_percent >= ResourceThresholds.cpu_pause
    /\ levels[1].resources.memory_percent < ResourceThresholds.memory_light
    /\ levels[2].resources.cpu_percent = levels[1].resources.cpu_percent
    /\ Band(levels[2].resources.memory_percent, MemoryCutoffs) = ThrottleLevel.HEAVY

\* this step is the start of a check_and_throttle call for agent a
CheckBy(a) ==
    /\ CheckAndThrottle
    /\ throttle_call[a].pc = "idle"
    /\ \/ throttle_call'[a].pc = "sampling"
       \/ /\ thlast'.agent = a
          /\ \A b \in Agents : throttle_call'[b].pc = throttle_call[b].pc

\* C15 (debounced pause): a check that resolves the level Pause adds one to the
\* counter; it reports should_pause and sets pause_until to the time of the
\* check plus min(60, 10 * counter) exactly when the counter is then at least 3,
\* and with a counter of 1 or 2 it reports no pause and a delay; a check made for
\* an agent while the clock is before the agent's pause_until returns at once
\* with should_pause and the time that remains.
DebouncedPause ==
    /\ []((thlast.resolved /\ thlast.level = ThrottleLevel.PAUSE) =>
            LET counter == thlast.state.consecutive_high_usage
            IN  /\ counter = thlast.was + 1
                /\ thlast.ret.should_pause <=> counter >= 3
                /\ counter >= 3 =>
                      /\ thlast.state.pause_until = thlast.at + Min(60, 10 * counter)
                      /\ thlast.ret.pause_remaining = Min(60, 10 * counter)
                /\ counter < 3 => thlast.ret.delay > 0)
    /\ [][\A a \in DOMAIN agent_states :
            (/\ agent_states[a].pause_until # NoTime
             /\ tnow < agent_states[a].pause_until
             /\ CheckBy(a))
            => /\ throttle_call'[a].pc = "idle"
               /\ thlast'.agent = a
               /\ thlast'.ret.should_pause
               /\ thlast'.ret.pause_remaining = agent_states[a].pause_until - tnow]_vars

\* C16 as claimed: a check that resolves a level other than Pause leaves the
\* counter one lower than the call found it, but not below 0, and pause_until
\* empty.
NonPauseDecrements ==
    (thlast.resolved /\ thlast.level # ThrottleLevel.PAUSE) =>
        /\ thlast.state.consecutive_high_usage = Max(0, thlast.was - 1)
        /\ thlast.state.pause_until = NoTime

\* C16 as amended: a check that resolves None, Light or Moderate leaves the
\* counter one lower than the call found it, but not below 0; a check that
\* resolves Heavy leaves the counter as the call found it; both leave pause_until
\* empty.
NonPauseRelaxes ==
    (thlast.resolved /\ thlast.level # ThrottleLevel.PAUSE) =>
        /\ thlast.level < ThrottleLevel.HEAVY =>
              thlast.state.consecutive_high_usage = Max(0, thlast.was - 1)
        /\ thlast.level = ThrottleLevel.HEAVY =>
              thlast.state.consecutive_high_usage = thlast.was
        /\ thlast.state.pause_until = NoTime

\* a check resolved Heavy for an agent that had been paused after three Pause
\* levels: the counter is still 3 and the expired pause is gone
NonPauseRelaxesWitness ==
    /\ thlast.resolved
    /\ thlast.level = ThrottleLevel.HEAVY
    /\ thlast.was >= 3
    /\ thlast.paused_until # NoTime
    /\ thlast.state.consecutive_high_usage = thlast.was
    /\ thlast.state.pause_until = NoTime

----------------------------------------------------------------------------
(* RateLimiter claims *)

\* the model is in a cooldown that handle_rate_limit_error started
InCooldown(m) ==
    /\ m \in DOMAIN model_state
    /\ model_state[m].in_cooldown
    /\ model_state[m].cooldown_until # NoTime

\* C17: while a model is in the cooldown that handle_rate_limit_error started,
\* an acquire for it before the deadline returns proceed = false with the time
\* left to the deadline as wait_time and leaves the cooldown in place; the first
\* acquire for it at or after the deadline returns proceed = true and clears the
\* cooldown; an acquire for another model leaves a cooldown whose deadline has
\* not come as it is, and an acquire for a model that is not in cooldown returns
\* proceed = true.
RateCooldown ==
    [][Acquire =>
          /\ \A m \in ModelInputs :
                InCooldown(m) =>
                    IF rlast'.model # m
                    THEN rnow < model_state[m].cooldown_until =>
                            /\ m \in DOMAIN model_state'
                            /\ model_state'[m] = model_state[m]
                    ELSE IF rnow < model_state[m].cooldown_until
                    THEN /\ ~rlast'.ret.proceed
                         /\ rlast'.ret.wait_time = model_state[m].cooldown_until - rnow
                         /\ model_state'[m] = model_state[m]
                    ELSE /\ rlast'.ret.proceed
                         /\ ~model_state'[m].in_cooldown
          /\ ~InCooldown(rlast'.model) => rlast'.ret.proceed]_vars

\* C18: handle_rate_limit_error sets the cooldown to retry_after seconds whenever
\* one was passed, 0 included, and otherwise to min(max_delay * 2^e, 300) seconds,
\* e being the consecutive-error counter it found; it then adds one to the
\* counter; a cooldown computed without retry_after is at most 300 seconds.
RetryAfterHonoured ==
    [][HandleRateLimitError =>
          LET call == rlast'
              e == call.found.consecutive_errors
              max_delay_seconds == get_model_config(call.model).max_delay \div Micro
              expected == IF call.retry_after # NoRetryAfter
                          THEN call.retry_after * Micro
                          ELSE Min(max_delay_seconds * 2^e, 300) * Micro
          IN  /\ call.cooldown = expected
              /\ model_state'[call.model].cooldown_until = rnow + expected
              /\ model_state'[call.model].consecutive_errors = e + 1
              /\ call.retry_after = NoRetryAfter => call.cooldown <= 300 * Micro]_vars

DelayInBounds ==
    \A m \in DOMAIN model_state :
        /\ get_model_config(m).min_delay <= model_state[m].current_delay
        /\ model_state[m].current_delay <= get_model_config(m).max_delay

----------------------------------------------------------------------------
(* The worker's loop *)

\* worker a took the step that leads to the primed state
StepOf(a) == wlast'.n # wlast.n /\ wlast'.agent = a

\* C21: the step of a worker that reads a reply with the end marker leaves the
\* queue as it was and the worker's status "completed", and once a worker has
\* read such a reply none of its steps enqueues a command, calls claim_next or
\* sends a model request
EndOfMission ==
    [][\A a \in Agents :
          /\ StepOf(a) /\ wlast'.reply.marker
                => /\ wlast'.enqueued = <<>>
                   /\ instructions' = instructions
                   /\ instruction_counter' = instruction_counter
                   /\ worker'[a].status = "completed"
          /\ StepOf(a) /\ wseen[a].ended
                => /\ wlast'.began \cap {"claim_next", "request"} = {}
                   /\ wlast'.enqueued = <<>>]_vars

\* a worker read a reply that carried the end marker next to a command, and
\* went on to the end of its run
EndOfMissionWitness ==
    \E a \in Agents :
        /\ wseen[a].ended
        /\ worker[a].pc = "done"
        /\ worker[a].status = "completed"
        /\ Len(instructions) + Len(executed_instructions) = 0

\* C22: after a request of a worker failed on authentication, no step of the
\* worker calls claim_next or sends a model request, and a step that leaves the
\* worker past its loop leaves its status "error"
AuthFailureFatal ==
    [][\A a \in Agents :
          StepOf(a) /\ wseen[a].auth_failed
             => /\ wlast'.began \cap {"claim_next", "request"} = {}
                /\ worker'[a].pc \in {"closing", "done"} => worker'[a].status = "error"]_vars

\* C23: once stop() was called on a worker, every step of the worker leaves its
\* status "stopped"
StoppedIsTerminal ==
    [][\A a \in Agents :
          StepOf(a) /\ wseen[a].stop_called => worker'[a].status = "stopped"]_vars

\* a reply without the end marker that holds no command
Malformed(reply) ==
    /\ reply # NoReply
    /\ ~reply.marker
    /\ reply.numbered = <<>>
    /\ reply.matches = <<>>

\* C24: the step that reads a malformed reply enqueues nothing, records no
\* failed request, and leaves the worker in the sleep that ends the iteration,
\* its status not "error"
MalformedOutputIgnored ==
    [][\A a \in Agents :
          StepOf(a) /\ Malformed(wlast'.reply)
             => /\ wlast'.enqueued = <<>>
                /\ instructions' = instructions
                /\ ~wlast'.failure
                /\ worker'[a].status # "error"
                /\ worker'[a].pc = "end_sleep"]_vars

\* C25: no step of a worker whose stopped flag is set begins a sleep, a
\* claim_next or a model request
CooperativeCancellation ==
    [][\A a \in Agents :
          StepOf(a) /\ worker[a].stopped
             => wlast'.began \cap {"sleep", "claim_next", "request"} = {}]_vars

\* C26: when a step of a worker sends a model request, wait_for_resources and
\* acquire have returned for the worker since the claim_next of the iteration
AdmissionBeforeRequest ==
    [][\A a \in Agents :
          StepOf(a) /\ "request" \in wlast'.began
             => {"wait_for_resources", "acquire"} \subseteq wseen'[a].admitted]_vars

\* C27: no step of a worker sends a request for a model that is in a cooldown
\* whose deadline is still ahead
CooldownSuspendsRequests ==
    [][\A a \in Agents :
          StepOf(a) /\ "request" \in wlast'.began
             => ~(InCooldown(worker[a].model_name)
                  /\ rnow < model_state[worker[a].model_name].cooldown_until)]_vars

\* C28: every worker reaches the end of its run, and no worker sends more than
\* max_iterations model requests
WorkerTerminates ==
    /\ \A a \in Agents : <>(worker[a].pc = "done")
    /\ [](\A a \in Agents : wseen[a].requests <= max_iterations)

\* C29: a step of a worker that calls claim_next or sends a model request finds
\* no item held by the worker, and claim_next gives it one item at most
ClaimedItemsReported ==
    [][\A a \in Agents :
          StepOf(a) /\ wlast'.began \cap {"claim_next", "request"} # {}
             => held[a] = {} /\ Len(wlast'.claimed) <= 1]_vars

----------------------------------------------------------------------------
(* The bus lock *)

\* the bus lock is free while send_message awaits a push handler
LockFreeInHandlers ==
    \A a \in Agents :
        bus_task[a].pc \in {"in_handler", "handler_waiting"} => bus_lock = None

\* every send_message a coroutine called returns
EverySendReturns ==
    \A a \in Agents : (bus_task[a].pc # "idle") ~> (bus_task[a].pc = "idle")

\* C30: the bus lock is free while send_message awaits a push handler, and
\* every send_message a coroutine called returns
BusCallsReturn == []LockFreeInHandlers /\ EverySendReturns

----------------------------------------------------------------------------
(* Properties of the snapshots and the listeners of the queue *)

\* status, claimant and command of the items a reader finds in a snapshot
Shown(snapshot, ins, left) ==
    LET Of(item) == [id |-> item.id, status |-> item.status,
                     claimed_by |-> item.claimed_by, command |-> item.command]
        read == Read(snapshot, ins, left)
    IN  [pending |-> [i \in DOMAIN read.pending |-> Of(read.pending[i])],
         executing |-> [i \in DOMAIN read.executing |-> Of(read.executing[i])]]

\* C31 (snapshots are immutable): a snapshot that was put into a listener's
\* queue, or that get_queue_state returned to a caller who still holds it, shows
\* after every later step the status, claimant and command it showed before,
\* for every item in its pending and executing lists.
SnapshotsImmutable ==
    [][ /\ \A l \in DOMAIN delivered : \A i \in DOMAIN delivered[l] :
              Shown(delivered[l][i], instructions', detached')
                 = Shown(delivered[l][i], instructions, detached)
        /\ returned' = returned =>
              \A i \in DOMAIN returned :
                 Shown(returned[i], instructions', detached')
                    = Shown(returned[i], instructions, detached) ]_vars

Registered(l) == \E i \in DOMAIN listeners : listeners[i] = l

\* whether the call that was just made took effect: the methods with a verdict
\* say so, add_instructions and clear_queue have none and always take effect
TookEffect(call) ==
    CASE call.op \in {"add_instructions", "clear_queue"} -> TRUE
      [] call.op \in {"add_instruction", "claim_next", "complete_instruction",
                      "fail_instruction", "remove_instruction", "edit_instruction"}
            -> call.ok
      [] OTHER -> FALSE

TotalCompletedCounts ==
    LET snapshot == get_queue_state_unlocked(Q)
    IN  /\ snapshot.total_completed = completions
        /\ completions = instruction_counter => snapshot.total_pending = 0

\* C34 (in-flight work is never discarded): an item that is executing leaves the
\* active list only in a complete_instruction call for its id by its claimant
\* that returns true; no other call (remove_instruction, clear_queue, the trim
\* of add_instructions) takes an executing item off the list.
InFlightKept ==
    [][ \A i \in DOMAIN instructions :
           (IsExecuting(instructions[i]) /\ ~InList(instructions', instructions[i].id))
              => /\ last'.op = "complete_instruction"
                 /\ last'.ok
                 /\ last'.id = instructions[i].id
                 /\ last'.agent = instructions[i].claimed_by ]_vars

\* C35 (pending ceiling): in every reachable state of the queue at most
\* max_instructions items are pending.
PendingCeiling == Len(Pending(instructions)) <= max_instructions

\* the structure of one state of the queue: ids of the active list strictly
\* increasing, none above the counter, a claimant exactly on the executing
\* items, no completed item in the list, and the list and the history disjoint
QueueWellFormed ==
    /\ \A i, j \in DOMAIN instructions :
          i < j => instructions[i].id < instructions[j].id
    /\ \A id \in IdsOf(instructions) \cup IdsOf(executed_instructions) :
          id <= instruction_counter
    /\ \A i \in DOMAIN instructions :
          /\ (instructions[i].claimed_by # None) <=> IsExecuting(instructions[i])
          /\ instructions[i].status # "completed"
    /\ IdsOf(instructions) \cap IdsOf(executed_instructions) = {}

\* an id that enters the active list was never issued before
IdsNeverReused ==
    \A id \in IdsOf(instructions') \ IdsOf(instructions) : id > instruction_counter

\* C36 (queue structural invariant): in every reachable state the ids of the
\* active list are pairwise distinct and strictly increasing in list order, an
\* item has a claimant if and only if it is executing, no item of the list is
\* completed and no id is in both the list and the history; and no step brings
\* into the list an id that is not above every id issued so far.
QueueStructure == []QueueWellFormed /\ [][IdsNeverReused]_vars

\* after a completion, a new item has been added behind an executing one
QueueStructureWitness ==
    /\ last.op = "add_instruction"
    /\ last.ok
    /\ executed_instructions # <<>>
    /\ Len(instructions) >= 2
    /\ \E i \in DOMAIN instructions : IsExecuting(instructions[i])

----------------------------------------------------------------------------
(* Properties of the acknowledgements *)

\* what an agent gets when it asks for its unread messages
Unread(b, agent) == get_messages(b, agent, {}, NoPriority, default_limit, TRUE)

\* C37 (acknowledgement is per recipient): a step in which an agent acknowledges
\* a message leaves what get_messages with unread_only returns to every other
\* agent as it was.
AckPerRecipient ==
    [][tlast'.op = "acknowledge_message"
         => \A other \in DOMAIN message_queue \ {tlast'.agent} :
               Unread(B', other) = Unread(B, other)]_vars

\* C38 (no probe is run twice): whatever claim_task and complete_task calls were
\* made, at most one claim_task call has returned true for any one identifier.
GrantedOnce == \A task \in DOMAIN grants : grants[task] <= 1

----------------------------------------------------------------------------
(* Properties of the request cycle *)

\* C39 (request budget): when every request follows an acquire and the sleep it
\* asked for and is followed by one record_request, the request count of the
\* model's window is at most requests_per_minute, whether one worker or several
\* use the model.
RequestBudget ==
    \A m \in DOMAIN model_state :
        model_state[m].requests_this_minute <= get_model_config(m).requests_per_minute

\* C40 (exponential backoff): when the only worker of a model has had k
\* rate-limited requests in a row since its last successful request, the first
\* of them with no error counted on the model, each retry made through acquire
\* after the cooldown was slept, the k-th cooldown is
\* min(max_delay * 2^(k-1), 300 seconds).
BackoffDoubles ==
    \A c \in users :
        (users = {c} /\ streak[c].k >= 1 /\ streak[c].base = 0)
            => streak[c].cooldown =
                   Min(get_model_config(SharedModel).max_delay * 2^(streak[c].k - 1),
                       max_cooldown * Micro)

============================================================================
